---------------------------- MODULE Spec2Model ----------------------------
(***************************************************************************)
(* A model of torii.hdl.ast (src/torii/hdl/ast.py): the expression and     *)
(* statement IR of the Torii hardware description language.                *)
(*                                                                         *)
(* The module holds several specifications over one set of variables:      *)
(*   SpecArray     Array, the addressable multiplexer and its freeze       *)
(*   SpecDUID      the process-wide id counter behind Signal/AnyValue      *)
(*   SpecConst     Const.__init__ and Const.normalize                      *)
(*   SpecOperator  construction of Operator nodes and Operator.shape()     *)
(*   SpecSlice     Slice.__init__                                          *)
(*   SpecPart      Part.__init__                                           *)
(*   SpecGetitem   Value.__getitem__                                       *)
(*   SpecMatches   Value.matches                                           *)
(*   SpecSwitch    Switch.__init__                                         *)
(*   SpecProxy     ArrayProxy.shape()                                      *)
(*   SpecValueKey  equality of ValueKey                                    *)
(*   SpecShapeCast Shape.cast of a range                                   *)
(*   SpecMapped    the sets and dicts keyed by SignalKey and ValueKey      *)
(*   SpecCast      Shape.cast and Value.cast of castable objects           *)
(*   SpecCastLive  the same, with the running cast scheduled               *)
(*   SpecSignals   _lhs_signals and _rhs_signals                           *)
(*   SpecThreads   DUID.__init__ called from several threads               *)
(*   SpecRotate    Value.rotate_left and Value.rotate_right                *)
(*   SpecSelect    Value.bit_select and Value.word_select                  *)
(*   SpecKeyLaws   ValueKey: __eq__ and __hash__ together                  *)
(*   SpecArith     Operator.shape against the operands' values             *)
(*   SpecAsConst   Cat._as_const                                           *)
(* Each specification parks the variables of the other parts.              *)
(***************************************************************************)
EXTENDS Integers, Sequences, FiniteSets, TLC

VARIABLES
    inner,      \* Array._inner: the element list
    mutable,    \* Array._mutable
    proxy_at,   \* Array._proxy_at: None, or the site of the freezing access
    arr_call,   \* the last call made on the Array and how it ended
    next_uid,   \* DUID.__next_uid
    issued,     \* the ids handed out so far, in order, with what asked for them
    pc,         \* position of the call under study: "idle" when there is none,
                \* "call" before it, "loop" while it runs, then "built",
                \* "once", "twice" or "done"
    args,       \* the arguments of the call under study
    result,     \* what the call produced: an object, or a raised exception
    mapped,     \* the key-mapped collection under study: its class and _storage
    history,    \* the insertions and deletions asked of it so far, in order
    castables,  \* the ShapeCastable / ValueCastable objects: what each one's
                \* hook returns, how often it ran and what the object memoized
    threads     \* the threads constructing DUID objects: the position of each
                \* in DUID.__init__ and what it has loaded

vars == <<inner, mutable, proxy_at, arr_call, next_uid, issued, pc, args, result,
         mapped, history, castables, threads>>

arrVars  == <<inner, mutable, proxy_at, arr_call>>
duidVars == <<next_uid, issued>>
callVars == <<pc, args, result>>
mapVars  == <<mapped, history>>
castVars == <<castables>>
threadVars == <<threads>>

(***************************************************************************)
(* Bounds of the model.                                                    *)
(***************************************************************************)
MaxLen   == 3    \* longest Array element list
NumElems == 2    \* distinct element objects stored in an Array
NumSites == 2    \* distinct source locations an access can come from
MaxUid   == 4    \* ids issued in one behaviour
MaxWidth == 4    \* widest shape drawn
MaxVal   == 9    \* largest magnitude of an integer drawn for Const
MaxIdx   == 6    \* largest magnitude of a slice bound or index drawn

(***************************************************************************)
(* Python values.                                                          *)
(***************************************************************************)
\* None is the empty tuple, and a present value v the 1-tuple <<v>>.
None == <<>>
Some(v) == <<v>>
IsNone(x) == x = None
The(x) == x[1]

\* A raised exception and a returned value, as one record shape.
Raise(exc) == [exc |-> exc, val |-> None]
Return(v)  == [exc |-> "none", val |-> Some(v)]
Raised(r)  == r.exc # "none"
Val(r)     == The(r.val)

\* No key-mapped collection is under study.
NoCollection == [cls |-> "none", storage |-> <<>>]

Max(a, b) == IF a >= b THEN a ELSE b
Min(a, b) == IF a <= b THEN a ELSE b

RECURSIVE Pow2(_)
Pow2(n) == IF n <= 0 THEN 1 ELSE 2 * Pow2(n - 1)

\* Python's bitwise operators on unbounded two's-complement integers.
RECURSIVE BitAnd(_, _)
BitAnd(a, b) ==
    IF a = 0 \/ b = 0 THEN 0
    ELSE IF a = -1 THEN b
    ELSE IF b = -1 THEN a
    ELSE (a % 2) * (b % 2) + 2 * BitAnd(a \div 2, b \div 2)

RECURSIVE BitOr(_, _)
BitOr(a, b) ==
    IF a = 0 THEN b
    ELSE IF b = 0 THEN a
    ELSE IF a = -1 \/ b = -1 THEN -1
    ELSE Max(a % 2, b % 2) + 2 * BitOr(a \div 2, b \div 2)

BitNot(a) == -a - 1

\* a << n and a >> n; Python raises ValueError on a negative shift count.
ShiftLeft(a, n)  == IF n < 0 THEN Raise("ValueError") ELSE Return(a * Pow2(n))
ShiftRight(a, n) == IF n < 0 THEN Raise("ValueError") ELSE Return(a \div Pow2(n))

(***************************************************************************)
(* Shape.                                                                  *)
(***************************************************************************)
Shape(width, signed) ==
    IF width < 0 THEN Raise("TypeError")
    ELSE Return([width |-> width, signed |-> signed])

unsigned(width) == Shape(width, FALSE)

Widths == 0..MaxWidth
Shapes == [width : Widths, signed : BOOLEAN]

(***************************************************************************)
(* Array.                                                                  *)
(***************************************************************************)
Elems == 1..NumElems
Sites == 1..NumSites
Lists == UNION {[1..n -> Elems] : n \in 0..MaxLen}
Indices == -(MaxLen + 1)..(MaxLen + 1)

NoCall == [op |-> "init", site |-> None, exc |-> "none"]
Call(op, site, exc) == [op |-> op, site |-> site, exc |-> exc]

Mutators == {"setitem", "delitem", "insert"}

\* Array.__init__; the other parts of the program are parked.
InitArray ==
    /\ inner \in Lists
    /\ proxy_at = None
    /\ mutable = TRUE
    /\ arr_call = NoCall
    /\ next_uid = 0
    /\ issued = <<>>
    /\ mapped = NoCollection
    /\ history = <<>>
    /\ castables = <<>>
    /\ threads = <<>>
    /\ pc = "idle"
    /\ args = None
    /\ result = None

\* list indexing: an index outside range(-n, n) raises IndexError.
ListIndex(lst, i) ==
    LET n == Len(lst) IN
    IF i < -n \/ i >= n THEN Raise("IndexError")
    ELSE Return(IF i < 0 THEN i + n + 1 ELSE i + 1)

\* list.insert clamps its index into 0..n.
ListInsertAt(lst, i) ==
    LET n == Len(lst)
        j == IF i < 0 THEN Max(i + n, 0) ELSE Min(i, n)
    IN j + 1

check_mutability_skipped == "none"

\* Array._check_mutability
check_mutability ==
    IF ~mutable THEN "ValueError" ELSE "none"

FreezeAlways(site) ==
    /\ proxy_at' = Some(site)
    /\ mutable' = FALSE

\* Array.__getitem__ with a Value index, from the source location `site`.
Freeze(site) ==
    IF mutable
    THEN /\ proxy_at' = Some(site)
         /\ mutable' = FALSE
    ELSE UNCHANGED <<proxy_at, mutable>>

GetItemValue(site) ==
    /\ Freeze(site)
    /\ arr_call' = Call("getitem_value", Some(site), "none")
    /\ UNCHANGED <<inner, duidVars, mapVars, castVars, threadVars, callVars>>

\* Array.__getitem__ with an integer index.
GetItemInt(i) ==
    /\ arr_call' = Call("getitem_int", None, ListIndex(inner, i).exc)
    /\ UNCHANGED <<inner, mutable, proxy_at, duidVars, mapVars, castVars, threadVars, callVars>>

\* Array.__getitem__ with a slice: list slicing never raises.
GetItemSlice ==
    /\ arr_call' = Call("getitem_slice", None, "none")
    /\ UNCHANGED <<inner, mutable, proxy_at, duidVars, mapVars, castVars, threadVars, callVars>>

\* Array.__len__
ArrayLen ==
    /\ arr_call' = Call("len", None, "none")
    /\ UNCHANGED <<inner, mutable, proxy_at, duidVars, mapVars, castVars, threadVars, callVars>>

\* Array.__setitem__
SetItem(i, v) ==
    LET chk == check_mutability
        at  == ListIndex(inner, i)
    IN  /\ IF chk # "none"
           THEN /\ arr_call' = Call("setitem", None, chk)
                /\ UNCHANGED inner
           ELSE IF Raised(at)
           THEN /\ arr_call' = Call("setitem", None, at.exc)
                /\ UNCHANGED inner
           ELSE /\ arr_call' = Call("setitem", None, "none")
                /\ inner' = [inner EXCEPT ![Val(at)] = v]
        /\ UNCHANGED <<mutable, proxy_at, duidVars, mapVars, castVars, threadVars, callVars>>

\* Array.__delitem__
DelItem(i) ==
    LET chk == check_mutability
        at  == ListIndex(inner, i)
    IN  /\ IF chk # "none"
           THEN /\ arr_call' = Call("delitem", None, chk)
                /\ UNCHANGED inner
           ELSE IF Raised(at)
           THEN /\ arr_call' = Call("delitem", None, at.exc)
                /\ UNCHANGED inner
           ELSE /\ arr_call' = Call("delitem", None, "none")
                /\ inner' = SubSeq(inner, 1, Val(at) - 1)
                            \o SubSeq(inner, Val(at) + 1, Len(inner))
        /\ UNCHANGED <<mutable, proxy_at, duidVars, mapVars, castVars, threadVars, callVars>>

\* Array.insert
Insert(i, v) ==
    LET chk == check_mutability
        j   == ListInsertAt(inner, i)
    IN  /\ chk = "none" => Len(inner) < MaxLen
        /\ IF chk # "none"
           THEN /\ arr_call' = Call("insert", None, chk)
                /\ UNCHANGED inner
           ELSE /\ arr_call' = Call("insert", None, "none")
                /\ inner' = SubSeq(inner, 1, j - 1) \o <<v>>
                            \o SubSeq(inner, j, Len(inner))
        /\ UNCHANGED <<mutable, proxy_at, duidVars, mapVars, castVars, threadVars, callVars>>

NextArray ==
    \/ \E s \in Sites : GetItemValue(s)
    \/ \E i \in Indices : GetItemInt(i)
    \/ GetItemSlice
    \/ ArrayLen
    \/ \E i \in Indices, v \in Elems : SetItem(i, v)
    \/ \E i \in Indices : DelItem(i)
    \/ \E i \in Indices, v \in Elems : Insert(i, v)

(***************************************************************************)
(* DUID, and the constructors that draw an id from it.                     *)
(***************************************************************************)
\* The class attribute DUID.__next_uid starts at 0.
InitDUID ==
    /\ next_uid = 0
    /\ issued = <<>>
    /\ mapped = NoCollection
    /\ history = <<>>
    /\ castables = <<>>
    /\ threads = <<>>
    /\ inner = <<>>
    /\ proxy_at = None
    /\ mutable = TRUE
    /\ arr_call = NoCall
    /\ pc = "idle"
    /\ args = None
    /\ result = None

DUID_init_no_increment(uid) == [duid |-> uid, next |-> uid]

\* DUID.__init__: takes the counter's value, then increments the counter.
DUID_init(uid) == [duid |-> uid, next |-> uid + 1]

Issue(kind, duid, constructed) ==
    [kind |-> kind, duid |-> duid, constructed |-> constructed]

\* Signal.__init__: Value.__init__ runs DUID.__init__ first; a bad name, shape
\* or reset raises after the id is taken.
NewSignal(fails) ==
    LET d == DUID_init(next_uid) IN
    /\ next_uid < MaxUid
    /\ next_uid' = d.next
    /\ issued' = Append(issued, Issue("Signal", d.duid, ~fails))
    /\ UNCHANGED <<arrVars, mapVars, castVars, threadVars, callVars>>

\* AnyValue.__init__ (AnyConst, AnySeq): the id is taken, then the shape cast
\* or the width check may raise.
NewAnyValue(kind, fails) ==
    LET d == DUID_init(next_uid) IN
    /\ next_uid < MaxUid
    /\ next_uid' = d.next
    /\ issued' = Append(issued, Issue(kind, d.duid, ~fails))
    /\ UNCHANGED <<arrVars, mapVars, castVars, threadVars, callVars>>

\* Property.__init__: Value.cast(test) may raise before any Signal is made;
\* then a check Signal and an enable Signal are constructed unless supplied.
NewProperty(castFails, haveCheck, haveEn) ==
    LET d1 == DUID_init(next_uid)
        afterCheck == IF haveCheck THEN next_uid ELSE d1.next
        viaCheck == IF haveCheck THEN issued
                    ELSE Append(issued, Issue("Signal", d1.duid, TRUE))
        d2 == DUID_init(afterCheck)
    IN  /\ next_uid + 2 <= MaxUid
        /\ IF castFails
           THEN UNCHANGED <<next_uid, issued>>
           ELSE /\ next_uid' = IF haveEn THEN afterCheck ELSE d2.next
                /\ issued' = IF haveEn THEN viaCheck
                             ELSE Append(viaCheck, Issue("Signal", d2.duid, TRUE))
        /\ UNCHANGED <<arrVars, mapVars, castVars, threadVars, callVars>>

NextDUID ==
    \/ \E f \in BOOLEAN : NewSignal(f)
    \/ \E k \in {"AnyConst", "AnySeq"}, f \in BOOLEAN : NewAnyValue(k, f)
    \/ \E c \in BOOLEAN, hc \in BOOLEAN, he \in BOOLEAN : NewProperty(c, hc, he)

SpecArray == InitArray /\ [][NextArray]_vars
SpecDUID  == InitDUID /\ [][NextDUID]_vars

(***************************************************************************)
(* Array: the freeze.                                                      *)
(***************************************************************************)
\* C1: once the Array has been indexed with a Value, every __setitem__,
\* __delitem__ and insert raises (ValueError) and leaves the element list and
\* the frozen state as they were, whatever calls came in between.
C1_FrozenArrayRejectsMutation ==
    [][(~mutable /\ arr_call'.op \in Mutators)
         => /\ arr_call'.exc = "ValueError"
            /\ inner' = inner
            /\ ~mutable']_vars

C1_Witness ==
    /\ ~mutable
    /\ arr_call.op = "setitem"
    /\ arr_call.exc = "ValueError"
    /\ Len(inner) > 0

\* C2: the Array is mutable from construction until its first Value-typed
\* access and frozen from then on; integer and slice reads and mutations never
\* freeze it; the recorded site is that of the first Value-typed access and no
\* later access changes it.
C2_FreezeIsOneWay ==
    /\ mutable = TRUE
    /\ proxy_at = None
    /\ [][/\ mutable' <=> (mutable /\ arr_call'.op # "getitem_value")
          /\ mutable' => proxy_at' = None
          /\ (mutable /\ ~mutable') => proxy_at' = arr_call'.site
          /\ ~mutable => proxy_at' = proxy_at]_vars

C2_Witness ==
    /\ ~mutable
    /\ arr_call.op = "getitem_value"
    /\ arr_call.site # proxy_at

(***************************************************************************)
(* DUID: ids in single-threaded construction.                              *)
(***************************************************************************)
\* C3: every id issued is strictly greater than every id issued before it,
\* whether the construction that drew it went on to succeed or to fail, so no
\* two objects share an id.
C3_IdsStrictlyIncrease ==
    \A i, j \in 1..Len(issued) :
        i < j => issued[i].duid < issued[j].duid

C3_Witness ==
    \E i, j, k \in 1..Len(issued) :
        /\ i < j /\ j < k
        /\ ~issued[i].constructed
        /\ issued[j].kind = "Signal" /\ issued[j].constructed
        /\ issued[k].kind \in {"AnyConst", "AnySeq"} /\ issued[k].constructed

(***************************************************************************)
(* Const.                                                                  *)
(***************************************************************************)
Ints == -MaxVal..MaxVal

\* Const(value, shape) with shape a Shape or an integer width, and a direct
\* call of the static method Const.normalize(value, (width, signed)).
ConstInputs ==
    [fn : {"Const"}, value : Ints, kind : {"Shape"},
     width : Widths, signed : BOOLEAN]
    \cup
    [fn : {"Const"}, value : Ints, kind : {"int"},
     width : -1..MaxWidth, signed : {FALSE}]
    \cup
    [fn : {"normalize"}, value : Ints, kind : {"Shape"},
     width : Widths, signed : BOOLEAN]

InitConst ==
    /\ args \in ConstInputs
    /\ pc = "call"
    /\ result = None
    /\ inner = <<>>
    /\ proxy_at = None
    /\ mutable = TRUE
    /\ arr_call = NoCall
    /\ next_uid = 0
    /\ issued = <<>>
    /\ mapped = NoCollection
    /\ history = <<>>
    /\ castables = <<>>
    /\ threads = <<>>

normalize_no_sign_extension(value, width, signed) ==
    Return(BitAnd(value, Val(ShiftLeft(1, width)) - 1))

\* Const.normalize
normalize(value, width, signed) ==
    LET shl == ShiftLeft(1, width) IN
    IF Raised(shl) THEN shl
    ELSE
    LET mask   == Val(shl) - 1
        masked == BitAnd(value, mask)
    IN  IF ~signed THEN Return(masked)
        ELSE
        LET top == ShiftRight(masked, width - 1) IN
        IF Raised(top) THEN top
        ELSE IF Val(top) # 0 THEN Return(BitOr(masked, BitNot(mask)))
        ELSE Return(masked)

\* Shape.cast of a Shape is the Shape itself; Const.__init__ builds the Shape
\* of an integer width with the sign of the value.
ConstShape(value, kind, width, signed) ==
    IF kind = "int" THEN Shape(width, value < 0)
    ELSE Return([width |-> width, signed |-> signed])

\* Const.__init__
Const_init(value, kind, width, signed) ==
    LET shape == ConstShape(value, kind, width, signed) IN
    IF Raised(shape) THEN shape
    ELSE
    LET v == normalize(value, Val(shape).width, Val(shape).signed) IN
    IF Raised(v) THEN v
    ELSE Return([type |-> "Const", value |-> Val(v),
                 width |-> Val(shape).width, signed |-> Val(shape).signed])

NewConst ==
    /\ pc = "call"
    /\ args.fn = "Const"
    /\ result' = Const_init(args.value, args.kind, args.width, args.signed)
    /\ pc' = "done"
    /\ UNCHANGED <<args, arrVars, duidVars, mapVars, castVars, threadVars>>

\* Const.normalize(value, shape)
NormalizeOnce ==
    /\ pc = "call"
    /\ args.fn = "normalize"
    /\ result' = normalize(args.value, args.width, args.signed)
    /\ pc' = "once"
    /\ UNCHANGED <<args, arrVars, duidVars, mapVars, castVars, threadVars>>

\* Const.normalize(Const.normalize(value, shape), shape)
NormalizeTwice ==
    /\ pc = "once"
    /\ ~Raised(result)
    /\ result' = [first  |-> result,
                  second |-> normalize(Val(result), args.width, args.signed)]
    /\ pc' = "twice"
    /\ UNCHANGED <<args, arrVars, duidVars, mapVars, castVars, threadVars>>

NextConst ==
    \/ NewConst
    \/ NormalizeOnce
    \/ NormalizeTwice

SpecConst == InitConst /\ [][NextConst]_vars

\* C4: normalize returns a value for every integer and every shape, and
\* normalizing that value again under the same shape gives it back.
C4_NormalizeIdempotent ==
    /\ pc = "once" => ~Raised(result)
    /\ pc = "twice" => result.second = result.first

\* C5: the value a Const stores is congruent to the value given modulo
\* 2^width and lies in the range of its shape: 0 <= value < 2^width when
\* unsigned, -2^(width-1) <= value < 2^(width-1) when signed.
C5_ConstValueInRange ==
    (pc = "done" /\ args.fn = "Const" /\ ~Raised(result)) =>
        LET c == Val(result) IN
        /\ c.width = args.width
        /\ c.signed = (IF args.kind = "int" THEN args.value < 0 ELSE args.signed)
        /\ (c.value - args.value) % Pow2(c.width) = 0
        /\ ~c.signed => (0 <= c.value /\ c.value < Pow2(c.width))
        /\ c.signed => /\ c.width >= 1
                       /\ -Pow2(c.width - 1) <= c.value
                       /\ c.value < Pow2(c.width - 1)

C5_Witness ==
    /\ pc = "done"
    /\ args.fn = "Const"
    /\ args.kind = "Shape"
    /\ ~Raised(result)
    /\ Val(result).signed
    /\ args.value > 0
    /\ Val(result).value < 0

(***************************************************************************)
(* Operator: construction and shape().                                     *)
(***************************************************************************)
UnaryOps   == {"+", "~", "-", "b", "r|", "r&", "r^", "u", "s"}
BinaryOps  == {"+", "-", "*", "//", "%", "<", "<=", "==", "!=", ">", ">=",
               "&", "^", "|", "<<", ">>"}
TernaryOps == {"m"}
\* A tag Operator.shape() knows at no arity.
UnknownOp  == "?"

\* How the node is built: Operator(...) called directly (as Mux and the
\* arithmetic methods do), or through a shift method of Value.  The operands
\* are values of the given shapes, in the order of Operator.operands; for a
\* reflected shift the first is Value.cast of the left-hand object.  debug is
\* Python's __debug__: False under -O, where assert statements do not run.
OperatorInputs ==
    [fn : {"Operator"}, how : {"direct"}, operator : UnaryOps \cup {UnknownOp},
     operands : [1..1 -> Shapes], debug : BOOLEAN]
    \cup
    [fn : {"Operator"}, how : {"direct"}, operator : BinaryOps \cup {UnknownOp},
     operands : [1..2 -> Shapes], debug : BOOLEAN]
    \cup
    [fn : {"Operator"}, how : {"direct"}, operator : TernaryOps \cup {UnknownOp},
     operands : [1..3 -> Shapes], debug : BOOLEAN]
    \cup
    [fn : {"Operator"}, how : {"__lshift__", "__rlshift__"}, operator : {"<<"},
     operands : [1..2 -> Shapes], debug : BOOLEAN]
    \cup
    [fn : {"Operator"}, how : {"__rshift__", "__rrshift__"}, operator : {">>"},
     operands : [1..2 -> Shapes], debug : BOOLEAN]

InitOperator ==
    /\ args \in OperatorInputs
    /\ pc = "call"
    /\ result = None
    /\ inner = <<>>
    /\ proxy_at = None
    /\ mutable = TRUE
    /\ arr_call = NoCall
    /\ next_uid = 0
    /\ issued = <<>>
    /\ mapped = NoCollection
    /\ history = <<>>
    /\ castables = <<>>
    /\ threads = <<>>

\* Operator.__init__: the operands are cast to Values and stored; nothing
\* about the operator or the operands is checked.
Operator_init(operator, operands) ==
    Return([type |-> "Operator", operator |-> operator, operands |-> operands])

\* Value.__check_shamt, on a shift amount of the given shape.
check_shamt(shape) ==
    IF shape.signed THEN "TypeError" ELSE "none"

\* Value.__lshift__, __rlshift__, __rshift__, __rrshift__: the shift amount
\* (the second operand of the node) is checked, then the node is built.
Shift(operator, operands) ==
    IF check_shamt(operands[2]) # "none" THEN Raise(check_shamt(operands[2]))
    ELSE Operator_init(operator, operands)

bitwise_binary_shape_no_sign_bit(a, b) ==
    Shape(Max(a.width, b.width), a.signed \/ b.signed)

\* _bitwise_binary_shape, local to Operator.shape
bitwise_binary_shape(a, b) ==
    IF ~a.signed /\ ~b.signed THEN Shape(Max(a.width, b.width), FALSE)
    ELSE IF a.signed /\ b.signed THEN Shape(Max(a.width, b.width), TRUE)
    ELSE IF ~a.signed /\ b.signed THEN Shape(Max(a.width + 1, b.width), TRUE)
    ELSE Shape(Max(a.width, b.width + 1), TRUE)

NotImplemented == Raise("NotImplementedError")

BoolInt_zero(b) == 0

\* a bool used as an int
BoolInt(b) == IF b THEN 1 ELSE 0

\* Operator.shape
Operator_shape(operator, op_shapes, debug) ==
    IF Len(op_shapes) = 1 THEN
        LET a == op_shapes[1] IN
        IF operator \in {"+", "~"} THEN Shape(a.width, a.signed)
        ELSE IF operator = "-" THEN Shape(a.width + 1, TRUE)
        ELSE IF operator \in {"b", "r|", "r&", "r^"} THEN Shape(1, FALSE)
        ELSE IF operator = "u" THEN Shape(a.width, FALSE)
        ELSE IF operator = "s" THEN Shape(a.width, TRUE)
        ELSE NotImplemented
    ELSE IF Len(op_shapes) = 2 THEN
        LET a == op_shapes[1]
            b == op_shapes[2]
        IN
        IF operator \in {"+", "-"} THEN
            LET p == bitwise_binary_shape(a, b) IN
            Shape(Val(p).width + 1, Val(p).signed)
        ELSE IF operator = "*" THEN
            Shape(a.width + b.width, a.signed \/ b.signed)
        ELSE IF operator = "//" THEN
            Shape(a.width + BoolInt(b.signed), a.signed \/ b.signed)
        ELSE IF operator = "%" THEN Shape(b.width, b.signed)
        ELSE IF operator \in {"<", "<=", "==", "!=", ">", ">="} THEN
            Shape(1, FALSE)
        ELSE IF operator \in {"&", "^", "|"} THEN bitwise_binary_shape(a, b)
        ELSE IF operator = "<<" THEN
            IF debug /\ b.signed THEN Raise("AssertionError")
            ELSE Shape(a.width + Pow2(b.width) - 1, a.signed)
        ELSE IF operator = ">>" THEN
            IF debug /\ b.signed THEN Raise("AssertionError")
            ELSE Shape(a.width, a.signed)
        ELSE NotImplemented
    ELSE IF Len(op_shapes) = 3 THEN
        IF operator = "m"
        THEN bitwise_binary_shape(op_shapes[2], op_shapes[3])
        ELSE NotImplemented
    ELSE NotImplemented

\* Operator(operator, operands)
NewOperator ==
    /\ pc = "call"
    /\ args.fn = "Operator"
    /\ args.how = "direct"
    /\ result' = Operator_init(args.operator, args.operands)
    /\ pc' = "built"
    /\ UNCHANGED <<args, arrVars, duidVars, mapVars, castVars, threadVars>>

\* a << b, a >> b and their reflected forms
NewShift ==
    /\ pc = "call"
    /\ args.fn = "Operator"
    /\ args.how # "direct"
    /\ result' = Shift(args.operator, args.operands)
    /\ pc' = "built"
    /\ UNCHANGED <<args, arrVars, duidVars, mapVars, castVars, threadVars>>

\* node.shape(), on a node that was built
QueryOperatorShape ==
    /\ pc = "built"
    /\ args.fn = "Operator"
    /\ ~Raised(result)
    /\ result' = [node  |-> Val(result),
                  shape |-> Operator_shape(Val(result).operator,
                                           Val(result).operands, args.debug)]
    /\ pc' = "done"
    /\ UNCHANGED <<args, arrVars, duidVars, mapVars, castVars, threadVars>>

NextOperator ==
    \/ NewOperator
    \/ NewShift
    \/ QueryOperatorShape

SpecOperator == InitOperator /\ [][NextOperator]_vars

\* The promotion table as the specification words it.
Promote(a, b) ==
    IF ~a.signed /\ ~b.signed
    THEN [width |-> Max(a.width, b.width), signed |-> FALSE]
    ELSE IF a.signed /\ b.signed
    THEN [width |-> Max(a.width, b.width), signed |-> TRUE]
    ELSE LET u == IF a.signed THEN b ELSE a
             g == IF a.signed THEN a ELSE b
         IN  [width |-> Max(u.width + 1, g.width), signed |-> TRUE]

\* C6: binary + and - have the promoted shape one bit wider; &, ^ and | have
\* exactly the promoted shape; Mux(sel, val1, val0) has exactly the promoted
\* shape of (val1, val0), whatever the shape of sel.
C6_PromotedShapes ==
    (pc = "done" /\ args.fn = "Operator") =>
        LET n  == result.node
            o  == n.operands
            sh == result.shape
        IN
        /\ (Len(o) = 2 /\ n.operator \in {"+", "-"}) =>
              /\ ~Raised(sh)
              /\ Val(sh) = [width  |-> Promote(o[1], o[2]).width + 1,
                            signed |-> Promote(o[1], o[2]).signed]
        /\ (Len(o) = 2 /\ n.operator \in {"&", "^", "|"}) =>
              /\ ~Raised(sh)
              /\ Val(sh) = Promote(o[1], o[2])
        /\ (Len(o) = 3 /\ n.operator = "m") =>
              /\ ~Raised(sh)
              /\ Val(sh) = Promote(o[2], o[3])

\* u3 + s4 has shape s5.
C6_Witness ==
    /\ pc = "done"
    /\ args.fn = "Operator"
    /\ result.node.operator = "+"
    /\ result.node.operands = <<[width |-> 3, signed |-> FALSE],
                                [width |-> 4, signed |-> TRUE]>>
    /\ result.shape = Return([width |-> 5, signed |-> TRUE])

\* C7: no '<<' or '>>' node with a signed shift amount is ever built: every
\* way of building one raises TypeError at construction, and so none reaches
\* shape().
C7_SignedShiftNeverBuilt ==
    (/\ args.fn = "Operator"
     /\ args.operator \in {"<<", ">>"}
     /\ Len(args.operands) = 2
     /\ args.operands[2].signed)
    => /\ pc = "built" => result = Raise("TypeError")
       /\ pc # "done"

(***************************************************************************)
(* Slice.                                                                  *)
(***************************************************************************)
Bounds == -MaxIdx..MaxIdx
\* An argument that is an integer, or (None) one that is not.
MaybeInts == {None} \cup {Some(i) : i \in Bounds}

\* Slice(value, start, stop) over a value of width n.
SliceInputs ==
    [fn : {"Slice"}, n : Widths, start : MaybeInts, stop : MaybeInts]

InitSlice ==
    /\ args \in SliceInputs
    /\ pc = "call"
    /\ result = None
    /\ inner = <<>>
    /\ proxy_at = None
    /\ mutable = TRUE
    /\ arr_call = NoCall
    /\ next_uid = 0
    /\ issued = <<>>
    /\ mapped = NoCollection
    /\ history = <<>>
    /\ castables = <<>>
    /\ threads = <<>>

\* x in range(-(n + 1), n + 1)
InSliceRange(x, n) == -(n + 1) <= x /\ x < n + 1

\* Slice.__init__, with start and stop integers
Slice_init_ints(n, start, stop) ==
    IF ~InSliceRange(start, n) THEN Raise("IndexError")
    ELSE
    LET start1 == IF start < 0 THEN start + n ELSE start IN
    IF ~InSliceRange(stop, n) THEN Raise("IndexError")
    ELSE
    LET stop1 == IF stop < 0 THEN stop + n ELSE stop IN
    IF start1 > stop1 THEN Raise("IndexError")
    ELSE Return([type |-> "Slice", n |-> n, start |-> start1, stop |-> stop1])

\* Slice.__init__
Slice_init(n, start, stop) ==
    IF IsNone(start) THEN Raise("TypeError")
    ELSE IF IsNone(stop) THEN Raise("TypeError")
    ELSE Slice_init_ints(n, The(start), The(stop))

\* Slice.shape
Slice_shape(node) == Shape(node.stop - node.start, FALSE)

NewSlice ==
    /\ pc = "call"
    /\ args.fn = "Slice"
    /\ result' = Slice_init(args.n, args.start, args.stop)
    /\ pc' = "built"
    /\ UNCHANGED <<args, arrVars, duidVars, mapVars, castVars, threadVars>>

QuerySliceShape ==
    /\ pc = "built"
    /\ args.fn = "Slice"
    /\ ~Raised(result)
    /\ result' = [node |-> Val(result), shape |-> Slice_shape(Val(result))]
    /\ pc' = "done"
    /\ UNCHANGED <<args, arrVars, duidVars, mapVars, castVars, threadVars>>

NextSlice ==
    \/ NewSlice
    \/ QuerySliceShape

SpecSlice == InitSlice /\ [][NextSlice]_vars

\* C8: every Slice that was constructed over a base of width n has
\* 0 <= start <= stop <= n, and so a width between 0 and n.
C8_SliceWithinBase ==
    /\ (pc = "built" /\ args.fn = "Slice" /\ ~Raised(result)) =>
          /\ 0 <= Val(result).start
          /\ Val(result).start <= Val(result).stop
          /\ Val(result).stop <= args.n
    /\ (pc = "done" /\ args.fn = "Slice") =>
          /\ ~Raised(result.shape)
          /\ Val(result.shape).width <= args.n

(***************************************************************************)
(* Part.                                                                   *)
(***************************************************************************)
\* Part(value, offset, width, stride) over a value of width n, with offset a
\* Value of some shape.
PartInputs ==
    [fn : {"Part"}, n : Widths, offset : Shapes,
     width  : {None} \cup {Some(i) : i \in -1..(MaxWidth + 1)},
     stride : {None} \cup {Some(i) : i \in -1..2}]

InitPart ==
    /\ args \in PartInputs
    /\ pc = "call"
    /\ result = None
    /\ inner = <<>>
    /\ proxy_at = None
    /\ mutable = TRUE
    /\ arr_call = NoCall
    /\ next_uid = 0
    /\ issued = <<>>
    /\ mapped = NoCollection
    /\ history = <<>>
    /\ castables = <<>>
    /\ threads = <<>>

Part_init_stride_unchecked(n, offset, width, stride) ==
    IF IsNone(width) \/ IsNone(stride) THEN Raise("TypeError")
    ELSE IF The(width) < 0 THEN Raise("TypeError")
    ELSE Return([type |-> "Part", n |-> n, offset |-> offset,
                 width |-> The(width), stride |-> The(stride)])

\* Part.__init__
Part_init(n, offset, width, stride) ==
    IF IsNone(width) THEN Raise("TypeError")
    ELSE IF The(width) < 0 THEN Raise("TypeError")
    ELSE IF IsNone(stride) THEN Raise("TypeError")
    ELSE IF The(stride) <= 0 THEN Raise("TypeError")
    ELSE Return([type |-> "Part", n |-> n, offset |-> offset,
                 width |-> The(width), stride |-> The(stride)])

\* Part.shape
Part_shape(node) == Shape(node.width, FALSE)

NewPart ==
    /\ pc = "call"
    /\ args.fn = "Part"
    /\ result' = Part_init(args.n, args.offset, args.width, args.stride)
    /\ pc' = "built"
    /\ UNCHANGED <<args, arrVars, duidVars, mapVars, castVars, threadVars>>

QueryPartShape ==
    /\ pc = "built"
    /\ args.fn = "Part"
    /\ ~Raised(result)
    /\ result' = [node |-> Val(result), shape |-> Part_shape(Val(result))]
    /\ pc' = "done"
    /\ UNCHANGED <<args, arrVars, duidVars, mapVars, castVars, threadVars>>

NextPart ==
    \/ NewPart
    \/ QueryPartShape

SpecPart == InitPart /\ [][NextPart]_vars

MaxStep == 3

Steps == {None} \cup {Some(i) : i \in -MaxStep..MaxStep}

\* value[key] on a value of width n, with key an integer i, a slice
\* start:stop:step (each of them None or an integer), or anything else.
GetitemInputs ==
    [fn : {"getitem"}, n : Widths, kind : {"int"},
     start : {Some(i) : i \in Bounds}, stop : {None}, step : {None}]
    \cup
    [fn : {"getitem"}, n : Widths, kind : {"slice"},
     start : MaybeInts, stop : MaybeInts, step : Steps]
    \cup
    [fn : {"getitem"}, n : Widths, kind : {"other"},
     start : {None}, stop : {None}, step : {None}]

InitGetitem ==
    /\ args \in GetitemInputs
    /\ pc = "call"
    /\ result = None
    /\ inner = <<>>
    /\ proxy_at = None
    /\ mutable = TRUE
    /\ arr_call = NoCall
    /\ next_uid = 0
    /\ issued = <<>>
    /\ mapped = NoCollection
    /\ history = <<>>
    /\ castables = <<>>
    /\ threads = <<>>

\* slice.indices(n): the slice's start, stop and step resolved for a sequence
\* of length n; a step of 0 raises ValueError.
SliceIndices(start, stop, step, n) ==
    LET st == IF IsNone(step) THEN 1 ELSE The(step) IN
    IF st = 0 THEN Raise("ValueError")
    ELSE
    LET lower == IF st < 0 THEN -1 ELSE 0
        upper == IF st < 0 THEN n - 1 ELSE n
        Clamp(x) == IF x < 0 THEN Max(x + n, lower) ELSE Min(x, upper)
        s == IF IsNone(start) THEN (IF st < 0 THEN upper ELSE lower)
             ELSE Clamp(The(start))
        e == IF IsNone(stop) THEN (IF st < 0 THEN lower ELSE upper)
             ELSE Clamp(The(stop))
    IN  Return([start |-> s, stop |-> e, step |-> st])

\* len(range(start, stop, step)), step not 0
RangeLen(start, stop, step) ==
    IF step > 0
    THEN (IF start < stop THEN (stop - start - 1) \div step + 1 ELSE 0)
    ELSE (IF start > stop THEN (start - stop - 1) \div (-step) + 1 ELSE 0)

Range_ascending(start, stop, step) ==
    LET len   == RangeLen(start, stop, step)
        first == IF step > 0 THEN start ELSE start + (len - 1) * step
        up    == IF step > 0 THEN step ELSE -step
    IN  [k \in 1..len |-> first + (k - 1) * up]

\* range(start, stop, step) as the sequence it iterates over
Range(start, stop, step) ==
    [k \in 1..RangeLen(start, stop, step) |-> start + (k - 1) * step]

\* Value.__getitem__ with an integer key
Getitem_int(n, key) ==
    IF key < -n \/ key >= n THEN Raise("IndexError")
    ELSE LET k == IF key < 0 THEN key + n ELSE key
         IN  Slice_init(n, Some(k), Some(k + 1))

\* Cat(self[i] for i in range(start, stop, step)): the first part that raises
\* ends the construction.
Cat_of_bits(n, positions) ==
    LET parts == [k \in 1..Len(positions) |-> Getitem_int(n, positions[k])] IN
    IF \E k \in 1..Len(parts) : Raised(parts[k])
    THEN parts[CHOOSE k \in 1..Len(parts) :
                 /\ Raised(parts[k])
                 /\ \A j \in 1..(k - 1) : ~Raised(parts[j])]
    ELSE Return([type |-> "Cat",
                 parts |-> [k \in 1..Len(parts) |-> Val(parts[k])]])

\* Value.__getitem__ with a slice key
Getitem_slice(n, start, stop, step) ==
    LET ix == SliceIndices(start, stop, step, n) IN
    IF Raised(ix) THEN ix
    ELSE IF Val(ix).step # 1
    THEN Cat_of_bits(n, Range(Val(ix).start, Val(ix).stop, Val(ix).step))
    ELSE Slice_init(n, Some(Val(ix).start), Some(Val(ix).stop))

\* Value.__getitem__
Value_getitem(n, kind, start, stop, step) ==
    IF kind = "int" THEN Getitem_int(n, The(start))
    ELSE IF kind = "slice" THEN Getitem_slice(n, start, stop, step)
    ELSE Raise("TypeError")

Getitem ==
    /\ pc = "call"
    /\ args.fn = "getitem"
    /\ result' = Value_getitem(args.n, args.kind, args.start, args.stop, args.step)
    /\ pc' = "done"
    /\ UNCHANGED <<args, arrVars, duidVars, mapVars, castVars, threadVars>>

NextGetitem ==
    \/ Getitem

SpecGetitem == InitGetitem /\ [][NextGetitem]_vars

\* value[start:stop:step] was evaluated with a step that is not 1.
SteppedSlice ==
    /\ pc = "done"
    /\ args.fn = "getitem"
    /\ args.kind = "slice"
    /\ ~IsNone(args.step)
    /\ The(args.step) \notin {0, 1}

IsBit(part, n) ==
    /\ part.type = "Slice"
    /\ part.stop = part.start + 1
    /\ 0 <= part.start
    /\ part.stop <= n

\* C10 as claimed: a slice with a step other than 1 gives a Cat of 1-bit
\* Slices whose positions are strictly increasing from one part to the next.
C10_BitsLowToHigh ==
    SteppedSlice =>
        /\ ~Raised(result)
        /\ Val(result).type = "Cat"
        /\ LET parts == Val(result).parts IN
           /\ \A k \in 1..Len(parts) : IsBit(parts[k], args.n)
           /\ \A k \in 1..(Len(parts) - 1) : parts[k].start < parts[k + 1].start

\* C10 as amended: a slice with a step other than 1 gives a Cat of 1-bit
\* Slices in the order in which range(start, stop, step) visits the bits:
\* successive positions differ by the step, so they are strictly increasing
\* for a positive step and strictly decreasing for a negative one.
C10_BitsInRangeOrder ==
    SteppedSlice =>
        /\ ~Raised(result)
        /\ Val(result).type = "Cat"
        /\ LET parts == Val(result).parts
               step  == The(args.step)
           IN
           /\ \A k \in 1..Len(parts) : IsBit(parts[k], args.n)
           /\ \A k \in 1..(Len(parts) - 1) :
                 /\ parts[k + 1].start - parts[k].start = step
                 /\ step > 0 => parts[k].start < parts[k + 1].start
                 /\ step < 0 => parts[k].start > parts[k + 1].start

\* value[::-1] on a value of two bits or more: the top bit comes first.
C10_Witness ==
    /\ SteppedSlice
    /\ The(args.step) < 0
    /\ ~Raised(result)
    /\ Len(Val(result).parts) >= 2
    /\ Val(result).parts[1].start = args.n - 1

(***************************************************************************)
(* Value.matches.                                                          *)
(***************************************************************************)
\* A string is the sequence of its characters.
Whitespace == {" ", "\t"}
PatternBits == {"0", "1", "-"}

\* ''.join(s.split()): s without its whitespace
StripWhitespace(s) == SelectSeq(s, LAMBDA c : c \notin Whitespace)

\* s.replace(old, new) for one-character old and new
Replace(s, old, new) == [k \in 1..Len(s) |-> IF s[k] = old THEN new ELSE s[k]]

\* int(s, 2) for a string without sign, prefix or whitespace: the empty
\* string and any character other than 0 and 1 raise ValueError.
RECURSIVE Base2Value(_)
Base2Value(s) ==
    IF Len(s) = 0 THEN 0
    ELSE 2 * Base2Value(SubSeq(s, 1, Len(s) - 1))
         + (IF s[Len(s)] = "1" THEN 1 ELSE 0)

IntBase2(s) ==
    IF Len(s) = 0 \/ \E k \in 1..Len(s) : s[k] \notin {"0", "1"}
    THEN Raise("ValueError")
    ELSE Return(Base2Value(s))

\* int.bit_length()
RECURSIVE bit_length(_)
bit_length(n) ==
    IF n = 0 THEN 0
    ELSE IF n < 0 THEN bit_length(-n)
    ELSE 1 + bit_length(n \div 2)

\* torii.util.units.bits_for: the least width that holds n, with a sign bit
\* when n is negative or one is required; zero takes one bit.
bits_for(n, require_sign_bit) ==
    IF n > 0 THEN bit_length(n) + BoolInt(require_sign_bit)
    ELSE IF n = 0 THEN 1
    ELSE bit_length(-n - 1) + 1

\* The patterns a call may be given.
StrPattern(chars) == [kind |-> "str", chars |-> chars, value |-> 0]
IntPattern(v)     == [kind |-> "int", chars |-> <<>>, value |-> v]
EnumPattern(v)    == [kind |-> "Enum", chars |-> <<>>, value |-> v]
OtherPattern      == [kind |-> "other", chars |-> <<>>, value |-> 0]

\* The comparison built for one pattern: (self & mask) == pattern when there
\* is a mask, self == pattern when there is none.
Comparison(mask, pattern) == [type |-> "==", mask |-> mask, pattern |-> pattern]

\* The mask and the value compared for a bit string without whitespace: the
\* mask has a 1 where the string has a 0 or a 1, the value has the string's
\* bits with 0 at each "-".
PatternMask_all_ones(pattern) ==
    IntBase2(Replace(Replace(pattern, "0", "1"), "-", "1"))

PatternMask(pattern) ==
    IntBase2(Replace(Replace(pattern, "0", "1"), "-", "0"))

PatternValue(pattern) ==
    IntBase2(Replace(pattern, "-", "0"))

\* One turn of the loop of Value.matches over an operand of width w: an
\* exception, no comparison (the pattern is skipped) or one comparison.
Matches_pattern(w, p) ==
    IF p.kind \notin {"int", "str", "Enum"} THEN Raise("SyntaxError")
    ELSE IF p.kind = "str"
            /\ \E k \in 1..Len(p.chars) : p.chars[k] \notin PatternBits \cup Whitespace
    THEN Raise("SyntaxError")
    ELSE IF p.kind = "str" /\ Len(StripWhitespace(p.chars)) # w
    THEN Raise("SyntaxError")
    ELSE IF p.kind = "int" /\ bits_for(p.value, FALSE) > w
    THEN Return(<<>>)
    ELSE IF p.kind = "str"
    THEN LET pattern == StripWhitespace(p.chars)
             mask    == PatternMask(pattern)
             value   == PatternValue(pattern)
         IN  IF Raised(mask) THEN mask
             ELSE IF Raised(value) THEN value
             ELSE Return(<<Comparison(Some(Val(mask)), Val(value))>>)
    ELSE Return(<<Comparison(None, p.value)>>)

\* The list `matches` after the loop, or the exception that ended the loop.
RECURSIVE Matches_loop(_, _, _)
Matches_loop(w, patterns, matches) ==
    IF Len(patterns) = 0 THEN Return(matches)
    ELSE LET one == Matches_pattern(w, Head(patterns)) IN
         IF Raised(one) THEN one
         ELSE Matches_loop(w, Tail(patterns), matches \o Val(one))

\* Value.matches
Value_matches(w, patterns) ==
    LET matches == Matches_loop(w, patterns, <<>>) IN
    IF Raised(matches) THEN matches
    ELSE IF Len(Val(matches)) = 0
    THEN Const_init(0, "shape", bits_for(0, FALSE), FALSE)
    ELSE IF Len(Val(matches)) = 1 THEN Return(Val(matches)[1])
    ELSE Return([type |-> "any", parts |-> Val(matches)])

\* The inputs drawn: every pattern alone, and every pair of patterns that
\* pass the checks of the loop for the operand's width.
MaxEnum == 3
CleanStrings(n) == [1..n -> PatternBits]
StrPatterns ==
    {StrPattern(s) : s \in UNION {CleanStrings(n) : n \in Widths}}
    \cup {StrPattern(s) : s \in {<<" ">>, <<"1", " ", "0">>, <<"\t", "-">>,
                                 <<"1", "x">>, <<"2">>}}
PatternInts == -MaxVal..MaxVal
Patterns ==
    StrPatterns
    \cup {IntPattern(v) : v \in PatternInts}
    \cup {EnumPattern(v) : v \in 0..MaxEnum}
    \cup {OtherPattern}
Fitting(w) == {p \in Patterns : ~Raised(Matches_pattern(w, p))}
PatternLists(w) ==
    {<<>>} \cup {<<p>> : p \in Patterns}
    \cup {<<p, q>> : p \in Fitting(w), q \in Fitting(w) \cup {OtherPattern}}
MatchesInputs ==
    UNION {[fn : {"matches"}, width : {w}, signed : BOOLEAN,
            patterns : PatternLists(w)] : w \in Widths}

InitMatches ==
    /\ args \in MatchesInputs
    /\ pc = "call"
    /\ result = None
    /\ inner = <<>>
    /\ proxy_at = None
    /\ mutable = TRUE
    /\ arr_call = NoCall
    /\ next_uid = 0
    /\ issued = <<>>
    /\ mapped = NoCollection
    /\ history = <<>>
    /\ castables = <<>>
    /\ threads = <<>>

Matches ==
    /\ pc = "call"
    /\ args.fn = "matches"
    /\ result' = Value_matches(args.width, args.patterns)
    /\ pc' = "done"
    /\ UNCHANGED <<args, arrVars, duidVars, mapVars, castVars, threadVars>>

NextMatches ==
    \/ Matches

SpecMatches == InitMatches /\ [][NextMatches]_vars

\* What the built expression denotes.  The operand of width w carries the
\* integers of its shape; a comparison holds of the operand's value v when
\* v, and-ed with the mask if there is one, is the compared integer.
OperandValues(w, signed) ==
    IF w = 0 THEN {0}
    ELSE IF signed THEN -Pow2(w - 1)..(Pow2(w - 1) - 1)
    ELSE 0..(Pow2(w) - 1)

Holds(c, v) ==
    IF IsNone(c.mask) THEN v = c.pattern
    ELSE BitAnd(v, The(c.mask)) = c.pattern

ResultValue(r, v) ==
    IF r.type = "Const" THEN r.value
    ELSE IF r.type = "==" THEN BoolInt(Holds(r, v))
    ELSE BoolInt(\E k \in 1..Len(r.parts) : Holds(r.parts[k], v))

\* The value an operand of the call under study has when its bits are b.
OperandWithBits(b) == Val(normalize(b, args.width, args.signed))

\* matches('1-1-') was called on a 4-bit operand.
Matched_1_1_ ==
    /\ pc = "done"
    /\ args.fn = "matches"
    /\ args.width = 4
    /\ args.patterns = <<StrPattern(<<"1", "-", "1", "-">>)>>

\* C11 as claimed: on a 4-bit operand, the comparison built by
\* matches('1-1-') is true for the value 0b1010 and false for 0b1011.
C11_Matches_1010_Not_1011 ==
    Matched_1_1_ =>
        /\ ~Raised(result)
        /\ ResultValue(Val(result), OperandWithBits(10)) = 1
        /\ ResultValue(Val(result), OperandWithBits(11)) = 0

\* C11 as amended: on a 4-bit operand, the comparison built by
\* matches('1-1-') masks out bits 2 and 0 and compares bits 3 and 1 with 1,
\* so it is true for exactly 0b1010, 0b1011, 0b1110 and 0b1111: true for
\* 0b1010 and also for 0b1011, which differs from it only at a "-", and
\* false for 0b1000 and 0b0010, which differ at a compared position.
C11_Matches_DontCare ==
    Matched_1_1_ =>
        /\ ~Raised(result)
        /\ Val(result) = Comparison(Some(10), 10)
        /\ \A b \in 0..15 :
              ResultValue(Val(result), OperandWithBits(b)) = 1
                  <=> b \in {10, 11, 14, 15}

\* matches('1-1-') on a 4-bit operand returned one masked comparison.
C11_Witness ==
    /\ Matched_1_1_
    /\ ~Raised(result)
    /\ Val(result).type = "=="
    /\ ~IsNone(Val(result).mask)

\* Bit i of the two's-complement integer v.
BitOf(v, i) == (v \div Pow2(i)) % 2

\* What the patterns of a call are said to mean.  A bit string, whitespace
\* aside, agrees with v when each of its characters other than "-" is the
\* bit of v at that position, the first character being the top bit; an
\* integer or an enumeration member matches the value equal to it, and an
\* integer wider than the operand matches nothing.
AgreesWith(chars, v) ==
    LET s == StripWhitespace(chars) IN
    \A k \in 1..Len(s) :
        s[k] # "-" => BitOf(v, Len(s) - k) = (IF s[k] = "1" THEN 1 ELSE 0)

PatternMatches(p, w, v) ==
    IF p.kind = "str" THEN AgreesWith(p.chars, v)
    ELSE IF p.kind = "int" THEN bits_for(p.value, FALSE) <= w /\ v = p.value
    ELSE v = p.value

WellFormed(p, w) ==
    \/ p.kind \in {"int", "Enum"}
    \/ /\ p.kind = "str"
       /\ \A k \in 1..Len(p.chars) : p.chars[k] \in PatternBits \cup Whitespace
       /\ Len(StripWhitespace(p.chars)) = w

\* matches was called with patterns that are all integers, enumeration
\* members or bit strings of the operand's width.
MatchedWellFormed ==
    /\ pc = "done"
    /\ args.fn = "matches"
    /\ \A k \in 1..Len(args.patterns) : WellFormed(args.patterns[k], args.width)

IsOrOfPatterns ==
    /\ ~Raised(result)
    /\ \A v \in OperandValues(args.width, args.signed) :
          ResultValue(Val(result), v) = 1
              <=> \E k \in 1..Len(args.patterns) :
                     PatternMatches(args.patterns[k], args.width, v)

\* C12: matches(*patterns) denotes the OR of one comparison per pattern: for
\* every operand value v the result is 1 iff some pattern matches v; an
\* integer wider than the operand adds nothing; without patterns the result
\* is the constant 0.
C12_MatchesIsOrOfPatterns ==
    MatchedWellFormed => IsOrOfPatterns

\* The same on operands of width 1 and more, where no bit string is empty.
Matches_OrOfPatterns_NonEmpty ==
    (MatchedWellFormed /\ args.width >= 1) => IsOrOfPatterns

(***************************************************************************)
(* Switch.                                                                 *)
(***************************************************************************)
\* format(n, 'b') for n >= 0
RECURSIVE FormatBinary(_)
FormatBinary(n) ==
    IF n < 2 THEN <<IF n = 1 THEN "1" ELSE "0">>
    ELSE Append(FormatBinary(n \div 2), IF n % 2 = 1 THEN "1" ELSE "0")

\* s.rjust(width, fill)
RJust(s, width, fill) ==
    IF Len(s) >= width THEN s
    ELSE [k \in 1..(width - Len(s)) |-> fill] \o s

\* A statement is known by its number; a case's statements are one statement
\* or a list of statements.
NumStmts == 2
Stmts == 1..NumStmts
OneStatement(s) == [iterable |-> FALSE, items |-> <<s>>]
StatementList(items) == [iterable |-> TRUE, items |-> items]

\* Statement.cast: a list is flattened into a _StatementList, a statement
\* becomes the list of itself.
Statement_cast(obj) == [k \in 1..Len(obj.items) |-> obj.items[k]]

\* The keys of one case as the mapping holds them: None, one key, or a tuple.
NoneKeys       == [form |-> "None", keys |-> <<>>]
BareKey(key)   == [form |-> "key", keys |-> <<key>>]
TupleKeys(keys) == [form |-> "tuple", keys |-> keys]

\* One key of a case, normalised over a test of width w.
Switch_key(w, key) ==
    LET key_mask == Pow2(w) - 1
        new_key  ==
            IF key.kind = "str" THEN StripWhitespace(key.chars)
            ELSE RJust(FormatBinary(BitAnd(key.value, key_mask)), w, "0")
    IN  IF key.kind \notin {"str", "int", "Enum"} THEN Raise("TypeError")
        ELSE IF Len(new_key) # w THEN Raise("AssertionError")
        ELSE Return(new_key)

\* The tuple new_keys of one case, or the exception of its first bad key.
RECURSIVE Switch_keys(_, _, _)
Switch_keys(w, keys, new_keys) ==
    IF Len(keys) = 0 THEN Return(new_keys)
    ELSE LET key == Switch_key(w, Head(keys)) IN
         IF Raised(key) THEN key
         ELSE Switch_keys(w, Tail(keys), Append(new_keys, Val(key)))

\* OrderedDict.__setitem__: a key already present keeps its place and takes
\* the new value, a new key goes to the end.
OrderedDict_set(d, key, value) ==
    IF \E k \in 1..Len(d) : d[k].keys = key
    THEN [k \in 1..Len(d) |->
            IF d[k].keys = key THEN [keys |-> key, stmts |-> value] ELSE d[k]]
    ELSE Append(d, [keys |-> key, stmts |-> value])

\* The loop of Switch.__init__ over cases.items().
RECURSIVE Switch_loop(_, _, _)
Switch_loop(w, items, cases) ==
    IF Len(items) = 0 THEN Return(cases)
    ELSE LET new_keys == Switch_keys(w, Head(items).keys.keys, <<>>) IN
         IF Raised(new_keys) THEN new_keys
         ELSE Switch_loop(w, Tail(items),
                  OrderedDict_set(cases, Val(new_keys),
                                  Statement_cast(Head(items).stmts)))

\* Switch.__init__
Switch_init(w, items) ==
    LET cases == Switch_loop(w, items, <<>>) IN
    IF Raised(cases) THEN cases
    ELSE Return([type |-> "Switch", width |-> w, cases |-> Val(cases)])

\* The inputs drawn: a test of each width and a mapping of up to MaxCases
\* cases.  The keys are small integers and enumeration members, the bit
\* strings that spell them in the test's width, a string of "-", strings
\* with whitespace, with a character that is no pattern bit, and of a wrong
\* length, and an object that is no key.
MaxKey   == 2
MaxCases == 2
KeyInts == -1..MaxKey
Spell(n, w) == [k \in 1..w |-> IF (n \div Pow2(w - k)) % 2 = 1 THEN "1" ELSE "0"]
Dashes(n) == [k \in 1..n |-> "-"]
KeyStrings(w) ==
    {Spell(n, w) : n \in 0..MaxKey}
    \cup {Dashes(w), Dashes(w + 1), <<" ">> \o Spell(MaxKey, w),
          [k \in 1..w |-> "x"]}
SwitchKeys(w) ==
    {StrPattern(s) : s \in KeyStrings(w)}
    \cup {IntPattern(v) : v \in KeyInts}
    \cup {EnumPattern(MaxKey), OtherPattern}
CaseKeys(w) ==
    {NoneKeys, TupleKeys(<<>>)}
    \cup {BareKey(k) : k \in SwitchKeys(w)}
    \cup {TupleKeys(<<k>>) : k \in SwitchKeys(w)}
    \cup {TupleKeys(<<IntPattern(j), IntPattern(k)>>) : j, k \in KeyInts}
CaseStmts ==
    {OneStatement(s) : s \in Stmts} \cup {StatementList(<<s>>) : s \in Stmts}
Cases(w) == [keys : CaseKeys(w), stmts : CaseStmts]
\* The keys of a mapping are distinct objects.
Mappings(w) ==
    {items \in UNION {[1..n -> Cases(w)] : n \in 0..MaxCases} :
        \A j, k \in 1..Len(items) : j # k => items[j].keys # items[k].keys}
SwitchInputs ==
    UNION {[fn : {"Switch"}, width : {w}, cases : Mappings(w)] : w \in Widths}

InitSwitch ==
    /\ args \in SwitchInputs
    /\ pc = "call"
    /\ result = None
    /\ inner = <<>>
    /\ proxy_at = None
    /\ mutable = TRUE
    /\ arr_call = NoCall
    /\ next_uid = 0
    /\ issued = <<>>
    /\ mapped = NoCollection
    /\ history = <<>>
    /\ castables = <<>>
    /\ threads = <<>>

NewSwitch ==
    /\ pc = "call"
    /\ args.fn = "Switch"
    /\ result' = Switch_init(args.width, args.cases)
    /\ pc' = "done"
    /\ UNCHANGED <<args, arrVars, duidVars, mapVars, castVars, threadVars>>

NextSwitch ==
    \/ NewSwitch

SpecSwitch == InitSwitch /\ [][NextSwitch]_vars

\* Switch(test, cases) was called.
SwitchCalled ==
    /\ pc = "done"
    /\ args.fn = "Switch"

\* What a key is said to be stored as over a test of width w: an integer or
\* an enumeration member as the w characters that spell it in w bits, a
\* string without its whitespace.
StoredAs(key, w) ==
    IF key.kind = "str" THEN StripWhitespace(key.chars) ELSE Spell(key.value, w)

\* None gives the empty tuple, one key the 1-tuple of it, a tuple itself.
StoredKeys(keys, w) == [k \in 1..Len(keys.keys) |-> StoredAs(keys.keys[k], w)]

\* Every key of the call is an integer, an enumeration member, or a string
\* that has the test's width once its whitespace is removed.
KeysOfTestWidth ==
    \A j \in 1..Len(args.cases) :
        \A k \in 1..Len(args.cases[j].keys.keys) :
            LET key == args.cases[j].keys.keys[k] IN
            \/ key.kind \in {"int", "Enum"}
            \/ /\ key.kind = "str"
               /\ Len(StripWhitespace(key.chars)) = args.width

KeysNormalised ==
    /\ ~Raised(result)
    /\ {Val(result).cases[j].keys : j \in 1..Len(Val(result).cases)}
         = {StoredKeys(args.cases[j].keys, args.width) : j \in 1..Len(args.cases)}

\* C13: over a test of any width w >= 0, a Switch stores every integer or
\* enumeration key as the string of exactly w characters that spells the key
\* in w bits, every string key without its whitespace and otherwise
\* unchanged, None as the empty tuple and a key that is no tuple as the
\* 1-tuple of it.
C13_SwitchKeysNormalised ==
    (SwitchCalled /\ KeysOfTestWidth) => KeysNormalised

\* The same over tests of width 1 and more.
Switch_KeysNormalised_NonEmpty ==
    (SwitchCalled /\ KeysOfTestWidth /\ args.width >= 1) => KeysNormalised

\* C14: in every Switch that was constructed over a test of width w, each
\* pattern of each key tuple is a string of exactly w characters over the
\* alphabet 0, 1 and "-".
C14_SwitchPatternsWellFormed ==
    (SwitchCalled /\ ~Raised(result)) =>
        \A j \in 1..Len(Val(result).cases) :
            LET keys == Val(result).cases[j].keys IN
            \A k \in 1..Len(keys) :
                /\ Len(keys[k]) = args.width
                /\ \A i \in 1..Len(keys[k]) : keys[k][i] \in PatternBits

\* The length alone: every pattern of a constructed Switch has the test's
\* width.
Switch_PatternsOfTestWidth ==
    (SwitchCalled /\ ~Raised(result)) =>
        \A j \in 1..Len(Val(result).cases) :
            LET keys == Val(result).cases[j].keys IN
            \A k \in 1..Len(keys) : Len(keys[k]) = args.width

\* The cases of the input, each with its keys as they are stored and its
\* statements as a statement list, in the input's order.
CasesInOrder ==
    [j \in 1..Len(args.cases) |->
        [keys  |-> StoredKeys(args.cases[j].keys, args.width),
         stmts |-> Statement_cast(args.cases[j].stmts)]]

\* C15: the cases of a constructed Switch are the cases of the input mapping
\* in its insertion order, each at its own position with its own statements,
\* also when different keys of the input normalise to the same pattern.
C15_SwitchCasesInInsertionOrder ==
    (SwitchCalled /\ ~Raised(result)) => Val(result).cases = CasesInOrder

\* The same for inputs whose keys normalise to different tuples.
Switch_CasesInOrder_DistinctKeys ==
    (/\ SwitchCalled
     /\ ~Raised(result)
     /\ \A j, k \in 1..Len(args.cases) :
           j # k => StoredKeys(args.cases[j].keys, args.width)
                      # StoredKeys(args.cases[k].keys, args.width))
    => Val(result).cases = CasesInOrder

(***************************************************************************)
(* ArrayProxy.shape().                                                     *)
(***************************************************************************)
signed(width) == Shape(width, TRUE)

\* The loop of ArrayProxy.shape over the shapes of the elements.
RECURSIVE ArrayProxy_widths(_, _)
ArrayProxy_widths(elem_shapes, acc) ==
    IF Len(elem_shapes) = 0 THEN acc
    ELSE LET elem == Head(elem_shapes) IN
         ArrayProxy_widths(Tail(elem_shapes),
             IF elem.signed
             THEN [acc EXCEPT !.has_signed = TRUE,
                              !.signed_width = Max(acc.signed_width, elem.width)]
             ELSE [acc EXCEPT !.has_unsigned = TRUE,
                              !.unsigned_width = Max(acc.unsigned_width, elem.width)])

ArrayProxy_shape_no_extension(elem_shapes) ==
    LET acc == ArrayProxy_widths(elem_shapes,
                   [unsigned_width |-> 0, signed_width |-> 0,
                    has_unsigned |-> FALSE, has_signed |-> FALSE])
    IN  Shape(Max(acc.unsigned_width, acc.signed_width), acc.has_signed)

\* ArrayProxy.shape
ArrayProxy_shape(elem_shapes) ==
    LET acc == ArrayProxy_widths(elem_shapes,
                   [unsigned_width |-> 0, signed_width |-> 0,
                    has_unsigned |-> FALSE, has_signed |-> FALSE])
    IN  IF acc.has_signed /\ acc.has_unsigned
           /\ acc.unsigned_width >= acc.signed_width
        THEN signed(acc.unsigned_width + 1)
        ELSE Shape(Max(acc.unsigned_width, acc.signed_width), acc.has_signed)

\* The inputs drawn: the shapes of the elements of a proxy, none to MaxLen.
ProxyInputs ==
    [fn : {"ArrayProxy.shape"},
     elems : UNION {[1..n -> Shapes] : n \in 0..MaxLen}]

InitProxy ==
    /\ args \in ProxyInputs
    /\ pc = "call"
    /\ result = None
    /\ inner = <<>>
    /\ proxy_at = None
    /\ mutable = TRUE
    /\ arr_call = NoCall
    /\ next_uid = 0
    /\ issued = <<>>
    /\ mapped = NoCollection
    /\ history = <<>>
    /\ castables = <<>>
    /\ threads = <<>>

QueryProxyShape ==
    /\ pc = "call"
    /\ args.fn = "ArrayProxy.shape"
    /\ result' = ArrayProxy_shape(args.elems)
    /\ pc' = "done"
    /\ UNCHANGED <<args, arrVars, duidVars, mapVars, castVars, threadVars>>

NextProxy ==
    \/ QueryProxyShape

SpecProxy == InitProxy /\ [][NextProxy]_vars

\* The promotion rule of Mux folded over a non-empty list of shapes.
RECURSIVE MuxTreeShape(_)
MuxTreeShape(shapes) ==
    IF Len(shapes) = 1 THEN shapes[1]
    ELSE Promote(MuxTreeShape(SubSeq(shapes, 1, Len(shapes) - 1)),
                 shapes[Len(shapes)])

Orders(n) == {f \in [1..n -> 1..n] : \A i, j \in 1..n : i # j => f[i] # f[j]}

\* The least and the greatest integer of a shape.
Least(s)    == IF s.signed /\ s.width > 0 THEN -Pow2(s.width - 1) ELSE 0
Greatest(s) == IF s.width = 0 THEN 0
               ELSE IF s.signed THEN Pow2(s.width - 1) - 1
               ELSE Pow2(s.width) - 1

\* shape() was asked of a proxy over at least one element.
ProxyShapeAsked ==
    /\ pc = "done"
    /\ args.fn = "ArrayProxy.shape"
    /\ Len(args.elems) >= 1

\* C16: the shape of an ArrayProxy over a non-empty list of elements is the
\* promotion rule of Mux folded over the shapes of the elements, in whatever
\* order they are taken; every integer of every element's shape is one of
\* its integers; [unsigned(2), signed(2)] gives signed(3).
C16_ProxyShapeIsMuxTree ==
    ProxyShapeAsked =>
        /\ ~Raised(result)
        /\ \A f \in Orders(Len(args.elems)) :
              Val(result) = MuxTreeShape([k \in 1..Len(args.elems) |-> args.elems[f[k]]])
        /\ \A k \in 1..Len(args.elems) :
              /\ Least(Val(result)) <= Least(args.elems[k])
              /\ Greatest(args.elems[k]) <= Greatest(Val(result))
        /\ args.elems = <<Val(unsigned(2)), Val(signed(2))>>
              => result = signed(3)

\* shape() of a proxy over [unsigned(2), signed(2)] returned signed(3).
C16_Witness ==
    /\ ProxyShapeAsked
    /\ args.elems = <<Val(unsigned(2)), Val(signed(2))>>
    /\ result = signed(3)

(***************************************************************************)
(* ValueKey.                                                               *)
(***************************************************************************)
\* The values keyed: constants, signals, clock signals, Cat and Sample over
\* them, and Initial.  A Sample's domain is None or a string.
NumSignals == 2
MaxClocks  == 1
Domains == {"sync", "pix"}
ConstValue(v)        == [type |-> "Const", value |-> v]
SignalValue(duid)    == [type |-> "Signal", duid |-> duid]
ClockSignalValue(d)  == [type |-> "ClockSignal", domain |-> d]
CatValue(parts)      == [type |-> "Cat", parts |-> parts]
SampleValue(v, c, d) == [type |-> "Sample", value |-> v, clocks |-> c, domain |-> d]
InitialValue         == [type |-> "Initial"]

\* ValueKey(a) == ValueKey(b), for a and b of the kinds above
RECURSIVE ValueKey_eq(_, _)
ValueKey_eq(self, other) ==
    IF self.type # other.type THEN FALSE
    ELSE IF self.type = "Const" THEN self.value = other.value
    ELSE IF self.type = "Signal" THEN self.duid = other.duid
    ELSE IF self.type = "ClockSignal" THEN self.domain = other.domain
    ELSE IF self.type = "Cat"
    THEN \A k \in 1..Min(Len(self.parts), Len(other.parts)) :
            ValueKey_eq(self.parts[k], other.parts[k])
    ELSE IF self.type = "Sample"
    THEN /\ ValueKey_eq(self.value, other.value)
         /\ self.clocks = other.clocks
         /\ self.domain = self.domain
    ELSE TRUE

\* The inputs drawn: two values to key and compare.
PlainValues ==
    {ConstValue(v) : v \in 0..1}
    \cup {SignalValue(d) : d \in 1..NumSignals}
    \cup {ClockSignalValue(d) : d \in Domains}
KeyedValues ==
    PlainValues
    \cup {CatValue(parts) : parts \in UNION {[1..n -> PlainValues] : n \in 0..2}}
    \cup {SampleValue(v, c, d) : v \in PlainValues, c \in 0..MaxClocks,
                                 d \in {None} \cup {Some(x) : x \in Domains}}
    \cup {InitialValue}
ValueKeyInputs == [fn : {"ValueKey.__eq__"}, self : KeyedValues, other : KeyedValues]

InitValueKey ==
    /\ args \in ValueKeyInputs
    /\ pc = "call"
    /\ result = None
    /\ inner = <<>>
    /\ proxy_at = None
    /\ mutable = TRUE
    /\ arr_call = NoCall
    /\ next_uid = 0
    /\ issued = <<>>
    /\ mapped = NoCollection
    /\ history = <<>>
    /\ castables = <<>>
    /\ threads = <<>>

CompareKeys ==
    /\ pc = "call"
    /\ args.fn = "ValueKey.__eq__"
    /\ result' = Return(ValueKey_eq(args.self, args.other))
    /\ pc' = "done"
    /\ UNCHANGED <<args, arrVars, duidVars, mapVars, castVars, threadVars>>

NextValueKey ==
    \/ CompareKeys

SpecValueKey == InitValueKey /\ [][NextValueKey]_vars

\* The keys of two values of one type were compared.
KeysCompared(type) ==
    /\ pc = "done"
    /\ args.fn = "ValueKey.__eq__"
    /\ args.self.type = type
    /\ args.other.type = type

\* C17: the keys of two Cat nodes are equal iff the two part lists have the
\* same length and the keys of the parts at each position are equal; the key
\* of Cat(a) is not the key of Cat(a, b).
C17_CatKeysEqualIffPartsEqual ==
    KeysCompared("Cat") =>
        (Val(result) <=>
            /\ Len(args.self.parts) = Len(args.other.parts)
            /\ \A k \in 1..Len(args.self.parts) :
                  ValueKey_eq(args.self.parts[k], args.other.parts[k]))

\* C18: the keys of two Sample nodes are equal iff the keys of the sampled
\* values are equal, the clocks are equal and the domains are equal; two
\* Samples that differ in the domain alone have unequal keys.
C18_SampleKeysEqualIffAllEqual ==
    KeysCompared("Sample") =>
        (Val(result) <=>
            /\ ValueKey_eq(args.self.value, args.other.value)
            /\ args.self.clocks = args.other.clocks
            /\ args.self.domain = args.other.domain)

(***************************************************************************)
(* Shape.cast of a range.                                                  *)
(***************************************************************************)
\* Shape.cast(range(start, stop, step))
Shape_cast_range(start, stop, step) ==
    IF RangeLen(start, stop, step) = 0 THEN Shape(0, start < 0)
    ELSE LET sign  == start < 0 \/ (stop - step) < 0
             width == Max(bits_for(start, sign), bits_for(stop - step, sign))
         IN  Shape(width, sign)

\* The inputs drawn: every range with bounds of magnitude up to MaxIdx and a
\* step, not zero, of magnitude up to MaxStep.
RangeInputs ==
    [fn : {"Shape.cast"}, start : Bounds, stop : Bounds,
     step : (-MaxStep..MaxStep) \ {0}]

InitShapeCast ==
    /\ args \in RangeInputs
    /\ pc = "call"
    /\ result = None
    /\ inner = <<>>
    /\ proxy_at = None
    /\ mutable = TRUE
    /\ arr_call = NoCall
    /\ next_uid = 0
    /\ issued = <<>>
    /\ mapped = NoCollection
    /\ history = <<>>
    /\ castables = <<>>
    /\ threads = <<>>

CastRange ==
    /\ pc = "call"
    /\ args.fn = "Shape.cast"
    /\ result' = Shape_cast_range(args.start, args.stop, args.step)
    /\ pc' = "done"
    /\ UNCHANGED <<args, arrVars, duidVars, mapVars, castVars, threadVars>>

NextShapeCast ==
    \/ CastRange

SpecShapeCast == InitShapeCast /\ [][NextShapeCast]_vars

\* Shape.cast was applied to a range.
RangeCast ==
    /\ pc = "done"
    /\ args.fn = "Shape.cast"

RangeElements ==
    LET r == Range(args.start, args.stop, args.step) IN {r[k] : k \in 1..Len(r)}

\* C20: the shape cast from a range, whatever its start, stop and non-zero
\* step, holds every element of the range, and is signed if an element of
\* the range is negative.
C20_RangeShapeHoldsElements ==
    RangeCast =>
        /\ ~Raised(result)
        /\ \A e \in RangeElements :
              Least(Val(result)) <= e /\ e <= Greatest(Val(result))
        /\ (\E e \in RangeElements : e < 0) => Val(result).signed

\* The same for the ranges whose step is 1.
RangeShape_HoldsElements_UnitStep ==
    (RangeCast /\ args.step = 1) =>
        /\ ~Raised(result)
        /\ \A e \in RangeElements :
              Least(Val(result)) <= e /\ e <= Greatest(Val(result))
        /\ (\E e \in RangeElements : e < 0) => Val(result).signed

(***************************************************************************)
(* SignalKey, and the collections keyed by SignalKey and by ValueKey.      *)
(***************************************************************************)
\* The objects given to a collection.  Two objects are the same object when
\* their obj is the same; a Signal is known by its duid.
SignalObject(duid)      == [type |-> "Signal", duid |-> duid, obj |-> duid]
ClockSignalObject(d, n) == [type |-> "ClockSignal", domain |-> d, obj |-> n]
ResetSignalObject(d, n) == [type |-> "ResetSignal", domain |-> d, obj |-> n]
ConstObject(v, n)       == [type |-> "Const", value |-> v, obj |-> n]
CatObject(parts, n)     == [type |-> "Cat", parts |-> parts, obj |-> n]
SampleObject(v, c, d, n) ==
    [type |-> "Sample", value |-> v, clocks |-> c, domain |-> d, obj |-> n]
NoneObject              == [type |-> "None"]

\* hash() of an integer, a string, None and a tuple, taken to tell apart
\* whatever differs.
HashInt(n)       == [of |-> "int", int |-> n]
HashStr(s)       == [of |-> "str", str |-> s]
HashNone         == [of |-> "None"]
HashTuple(items) == [of |-> "tuple", items |-> items]

\* ValueKey.__init__: the _hash of the key of a value
RECURSIVE ValueKey_hash(_)
ValueKey_hash(v) ==
    IF v.type = "Const" THEN HashInt(v.value)
    ELSE IF v.type = "Signal" THEN HashInt(v.duid)
    ELSE IF v.type \in {"ClockSignal", "ResetSignal"} THEN HashStr(v.domain)
    ELSE IF v.type = "Cat"
    THEN HashTuple([k \in 1..Len(v.parts) |-> ValueKey_hash(v.parts[k])])
    ELSE IF v.type = "Sample"
    THEN HashTuple(<<ValueKey_hash(v.value), HashInt(v.clocks),
                     IF IsNone(v.domain) THEN HashNone ELSE HashStr(The(v.domain))>>)
    ELSE HashInt(0)

\* SignalKey.__init__: the _intern of the key of a signal
SignalKey_intern(signal) ==
    IF signal.type = "Signal" THEN Return([tag |-> 0, duid |-> signal.duid])
    ELSE IF signal.type = "ClockSignal"
    THEN Return([tag |-> 1, domain |-> signal.domain])
    ELSE IF signal.type = "ResetSignal"
    THEN Return([tag |-> 2, domain |-> signal.domain])
    ELSE Raise("TypeError")

SetClasses  == {"SignalSet", "ValueSet"}
DictClasses == {"SignalDict", "ValueDict"}
SignalClasses == {"SignalSet", "SignalDict"}

\* _map_key(obj), and the None that a dict takes for a key as it is: the
\* key keeps the object it was made of, and its hash.
map_key(cls, obj) ==
    IF obj.type = "None"
    THEN IF cls \in DictClasses THEN Return([obj |-> obj, hash |-> HashNone])
         ELSE Raise("TypeError")
    ELSE IF cls \in SignalClasses
    THEN LET intern == SignalKey_intern(obj) IN
         IF Raised(intern) THEN intern
         ELSE Return([obj |-> obj, hash |-> HashTuple(Val(intern))])
    ELSE Return([obj |-> obj, hash |-> ValueKey_hash(obj)])

\* key == other, for two keys of a collection of class cls
key_eq(cls, key, other) ==
    IF key.obj.type = "None" \/ other.obj.type = "None"
    THEN key.obj.type = other.obj.type
    ELSE IF cls \in SignalClasses
    THEN SignalKey_intern(key.obj) = SignalKey_intern(other.obj)
    ELSE ValueKey_eq(key.obj, other.obj)

\* The place of a key in an OrderedDict, 0 when it is not there: the hashes
\* are compared first, and the keys of equal hash with ==.
storage_lookup(storage, cls, key) ==
    LET found == {k \in 1..Len(storage) :
                     /\ storage[k].key.hash = key.hash
                     /\ key_eq(cls, storage[k].key, key)}
    IN  IF found = {} THEN 0 ELSE CHOOSE k \in found : \A j \in found : k <= j

storage_set_moves_to_end(storage, cls, key, value) ==
    LET k == storage_lookup(storage, cls, key) IN
    IF k = 0 THEN Append(storage, [key |-> key, value |-> value])
    ELSE Append(SubSeq(storage, 1, k - 1) \o SubSeq(storage, k + 1, Len(storage)),
                [key |-> key, value |-> value])

\* self._storage[key] = value: a key that is there keeps its place and its
\* key object and takes the value, a new key goes to the end.
storage_set(storage, cls, key, value) ==
    LET k == storage_lookup(storage, cls, key) IN
    IF k = 0 THEN Append(storage, [key |-> key, value |-> value])
    ELSE [storage EXCEPT ![k].value = value]

\* del self._storage[key], for a key that is there
storage_del(storage, cls, key) ==
    LET k == storage_lookup(storage, cls, key) IN
    SubSeq(storage, 1, k - 1) \o SubSeq(storage, k + 1, Len(storage))

\* The objects drawn.  For the collections of signals: a Signal, two
\* ClockSignal objects of one domain, a ResetSignal of that domain, and a
\* Const, which is no signal.  For the collections of values: two objects
\* Cat(a), a Cat(a, b), and a Sample of each of two domains.  A dict may also
\* be given None.  The value a dict is given is the number of the call, so
\* that no two calls store the same value.
MaxEvents == 4
SignalObjects ==
    {SignalObject(1), ClockSignalObject("sync", 11), ClockSignalObject("sync", 12),
     ResetSignalObject("sync", 13), ConstObject(1, 14)}
ValueObjects ==
    {CatObject(<<SignalValue(1)>>, 15), CatObject(<<SignalValue(1)>>, 16),
     CatObject(<<SignalValue(1), SignalValue(2)>>, 17),
     SampleObject(SignalValue(1), 1, Some("sync"), 18),
     SampleObject(SignalValue(1), 1, Some("pix"), 19)}
Objects(cls) ==
    (IF cls \in SignalClasses THEN SignalObjects ELSE ValueObjects)
    \cup (IF cls \in DictClasses THEN {NoneObject} ELSE {})

Inserted(obj) == [ev |-> "ins", obj |-> obj]
Deleted(obj)  == [ev |-> "del", obj |-> obj]

\* _MappedKeySet.__init__ and _MappedKeyDict.__init__ without elements.
InitMapped ==
    /\ mapped \in [cls : SetClasses \cup DictClasses, storage : {<<>>}]
    /\ history = <<>>
    /\ castables = <<>>
    /\ threads = <<>>
    /\ inner = <<>>
    /\ proxy_at = None
    /\ mutable = TRUE
    /\ arr_call = NoCall
    /\ next_uid = 0
    /\ issued = <<>>
    /\ pc = "idle"
    /\ args = None
    /\ result = None

\* _MappedKeySet.__contains__
Set_contains(storage, cls, value) ==
    LET key == map_key(cls, value) IN
    IF Raised(key) THEN key
    ELSE Return(storage_lookup(storage, cls, Val(key)) # 0)

\* _MappedKeySet.add
Set_add(storage, cls, value) ==
    LET key == map_key(cls, value) IN
    IF Raised(key) THEN key
    ELSE Return(storage_set(storage, cls, Val(key), None))

\* _MappedKeySet.discard
Set_discard(storage, cls, value) ==
    LET present == Set_contains(storage, cls, value) IN
    IF Raised(present) THEN present
    ELSE IF Val(present) THEN Return(storage_del(storage, cls, Val(map_key(cls, value))))
    ELSE Return(storage)

\* _MappedKeyDict.__getitem__
Dict_getitem(storage, cls, key) ==
    LET mkey == map_key(cls, key) IN
    IF Raised(mkey) THEN mkey
    ELSE LET k == storage_lookup(storage, cls, Val(mkey)) IN
         IF k = 0 THEN Raise("KeyError") ELSE Return(storage[k].value)

\* _MappedKeyDict.__setitem__
Dict_setitem(storage, cls, key, value) ==
    LET mkey == map_key(cls, key) IN
    IF Raised(mkey) THEN mkey
    ELSE Return(storage_set(storage, cls, Val(mkey), Some(value)))

\* _MappedKeyDict.__delitem__
Dict_delitem(storage, cls, key) ==
    LET mkey == map_key(cls, key) IN
    IF Raised(mkey) THEN mkey
    ELSE IF storage_lookup(storage, cls, Val(mkey)) = 0 THEN Raise("KeyError")
    ELSE Return(storage_del(storage, cls, Val(mkey)))

\* iter(collection): the objects of the stored keys, in the storage's order
Mapped_iter(storage) == [k \in 1..Len(storage) |-> storage[k].key.obj]

Add ==
    /\ mapped.cls \in SetClasses
    /\ Len(history) < MaxEvents
    /\ \E value \in Objects(mapped.cls) :
          LET r == Set_add(mapped.storage, mapped.cls, value) IN
          IF Raised(r) THEN UNCHANGED <<mapped, history>>
          ELSE /\ mapped' = [mapped EXCEPT !.storage = Val(r)]
               /\ history' = Append(history, Inserted(value))
    /\ UNCHANGED <<arrVars, duidVars, castVars, threadVars, callVars>>

\* _MappedKeySet.update with two values: the second is added unless the
\* first raised.
Update ==
    /\ mapped.cls \in SetClasses
    /\ Len(history) + 1 < MaxEvents
    /\ \E v1, v2 \in Objects(mapped.cls) :
          LET r1 == Set_add(mapped.storage, mapped.cls, v1) IN
          IF Raised(r1) THEN UNCHANGED <<mapped, history>>
          ELSE LET r2 == Set_add(Val(r1), mapped.cls, v2) IN
               IF Raised(r2)
               THEN /\ mapped' = [mapped EXCEPT !.storage = Val(r1)]
                    /\ history' = Append(history, Inserted(v1))
               ELSE /\ mapped' = [mapped EXCEPT !.storage = Val(r2)]
                    /\ history' = history \o <<Inserted(v1), Inserted(v2)>>
    /\ UNCHANGED <<arrVars, duidVars, castVars, threadVars, callVars>>

Discard ==
    /\ mapped.cls \in SetClasses
    /\ Len(history) < MaxEvents
    /\ \E value \in Objects(mapped.cls) :
          LET r == Set_discard(mapped.storage, mapped.cls, value) IN
          IF Raised(r) THEN UNCHANGED <<mapped, history>>
          ELSE /\ mapped' = [mapped EXCEPT !.storage = Val(r)]
               /\ history' = Append(history, Deleted(value))
    /\ UNCHANGED <<arrVars, duidVars, castVars, threadVars, callVars>>

SetItemMapped ==
    /\ mapped.cls \in DictClasses
    /\ Len(history) < MaxEvents
    /\ \E key \in Objects(mapped.cls) :
          LET r == Dict_setitem(mapped.storage, mapped.cls, key, Len(history) + 1) IN
          IF Raised(r) THEN UNCHANGED <<mapped, history>>
          ELSE /\ mapped' = [mapped EXCEPT !.storage = Val(r)]
               /\ history' = Append(history, Inserted(key))
    /\ UNCHANGED <<arrVars, duidVars, castVars, threadVars, callVars>>

\* A KeyError leaves the dict as it was.
DelItemMapped ==
    /\ mapped.cls \in DictClasses
    /\ Len(history) < MaxEvents
    /\ \E key \in Objects(mapped.cls) :
          LET r == Dict_delitem(mapped.storage, mapped.cls, key) IN
          IF Raised(r) THEN UNCHANGED <<mapped, history>>
          ELSE /\ mapped' = [mapped EXCEPT !.storage = Val(r)]
               /\ history' = Append(history, Deleted(key))
    /\ UNCHANGED <<arrVars, duidVars, castVars, threadVars, callVars>>

NextMapped ==
    \/ Add
    \/ Update
    \/ Discard
    \/ SetItemMapped
    \/ DelItemMapped

SpecMapped == InitMapped /\ [][NextMapped]_vars

\* Two objects have equal keys in the collection under study: their keys
\* have equal hashes and compare equal, which is what the storage goes by.
KeyEqual(a, b) ==
    IF a.type = "None" \/ b.type = "None" THEN a.type = b.type
    ELSE IF mapped.cls \in SignalClasses
    THEN SignalKey_intern(a) = SignalKey_intern(b)
    ELSE ValueKey_hash(a) = ValueKey_hash(b) /\ ValueKey_eq(a, b)

\* The objects that can be keys of the collection under study.
Keyable == {obj \in Objects(mapped.cls) : ~Raised(map_key(mapped.cls, obj))}

\* The place in the history of the first insertion ever of a key equal to
\* obj's, of the last deletion of one, and of the first insertion of one
\* since that deletion; 0 when there is none.
FirstEverInsertion(obj) ==
    LET at == {i \in 1..Len(history) :
                  history[i].ev = "ins" /\ KeyEqual(history[i].obj, obj)}
    IN  IF at = {} THEN 0 ELSE CHOOSE i \in at : \A j \in at : i <= j

LastDeletion(obj) ==
    LET at == {i \in 1..Len(history) :
                  history[i].ev = "del" /\ KeyEqual(history[i].obj, obj)}
    IN  IF at = {} THEN 0 ELSE CHOOSE i \in at : \A j \in at : j <= i

FirstInsertion(obj) ==
    LET last == LastDeletion(obj)
        at   == {i \in (last + 1)..Len(history) :
                    history[i].ev = "ins" /\ KeyEqual(history[i].obj, obj)}
    IN  IF at = {} THEN 0 ELSE CHOOSE i \in at : \A j \in at : i <= j

\* Membership in a set, lookup in a dict.
Found(obj) ==
    IF mapped.cls \in SetClasses
    THEN Val(Set_contains(mapped.storage, mapped.cls, obj))
    ELSE ~Raised(Dict_getitem(mapped.storage, mapped.cls, obj))

\* What iteration yields.
Yielded == Mapped_iter(mapped.storage)

OneEntryPerKey ==
    \A j, k \in 1..Len(Yielded) : j # k => ~KeyEqual(Yielded[j], Yielded[k])

\* Each yielded object was inserted, and no deletion of its key followed.
YieldsInsertedObjects ==
    \A k \in 1..Len(Yielded) :
        \E i \in (LastDeletion(Yielded[k]) + 1)..Len(history) :
            history[i] = Inserted(Yielded[k])

\* An object is found iff an object of equal key is present: one was
\* inserted and none was deleted since, and iteration yields one.
FoundIffKeyPresent ==
    \A obj \in Keyable :
        /\ Found(obj) <=> FirstInsertion(obj) > 0
        /\ Found(obj) <=> \E k \in 1..Len(Yielded) : KeyEqual(Yielded[k], obj)

\* C19 as claimed: after any sequence of add/insert, update and
\* discard/delete, a key-mapped set or dict holds at most one entry per key,
\* iterates over the keys now present in the order in which they were first
\* inserted, yields for each key an object that was inserted under it, and
\* finds an object iff an object of equal key is present.
C19_OrderOfFirstInsertion ==
    mapped.cls \in SetClasses \cup DictClasses =>
        /\ OneEntryPerKey
        /\ \A k \in 1..(Len(Yielded) - 1) :
              FirstEverInsertion(Yielded[k]) < FirstEverInsertion(Yielded[k + 1])
        /\ YieldsInsertedObjects
        /\ FoundIffKeyPresent

\* C19 as amended: the same, with the keys now present iterated in the order
\* of the insertion that made each of them present, that is its first
\* insertion since it was last absent: a key that is deleted and inserted
\* again goes to the end.  The object yielded for a key is the one of that
\* insertion, whatever equal-keyed objects were inserted after it.
C19_OrderOfInsertionSinceAbsent ==
    mapped.cls \in SetClasses \cup DictClasses =>
        /\ OneEntryPerKey
        /\ \A k \in 1..(Len(Yielded) - 1) :
              FirstInsertion(Yielded[k]) < FirstInsertion(Yielded[k + 1])
        /\ YieldsInsertedObjects
        /\ \A k \in 1..Len(Yielded) :
              Yielded[k] = history[FirstInsertion(Yielded[k])].obj
        /\ FoundIffKeyPresent

\* A key was inserted, deleted, and inserted again after another key: the
\* collection yields it after that other key.
C19_Witness ==
    /\ mapped.cls \in SetClasses \cup DictClasses
    /\ Len(Yielded) >= 2
    /\ \E k \in 2..Len(Yielded) :
          /\ LastDeletion(Yielded[k]) > 0
          /\ FirstEverInsertion(Yielded[k]) < FirstEverInsertion(Yielded[k - 1])

(***************************************************************************)
(* Shape.cast and Value.cast: the resolution loop over castable objects.   *)
(***************************************************************************)
NumCastables == 2
MaxRuns == 2

\* What a cast can be handed or a hook can return: one of the castable
\* objects (told apart by identity), a Shape or a Value, an int, or an object
\* that is none of these.
Castable(id) == [type |-> "castable", id |-> id]
Resolved     == [type |-> "resolved", id |-> 0]
IntObject(n) == [type |-> "int", id |-> n]
OtherObject  == [type |-> "other", id |-> 0]

CastableIds == 1 .. NumCastables
HookResults ==
    {Castable(i) : i \in CastableIds} \cup {Resolved, IntObject(2), OtherObject}

\* The user's hook, which need not be a function of the object alone: run k
\* returns returns[k], and the runs from the last listed one on return the
\* last.
Hook_run(c) ==
    LET k == Min(c.runs + 1, Len(c.returns)) IN
    [new_obj |-> c.returns[k],
     self |-> [c EXCEPT !.runs = Min(c.runs + 1, MaxRuns)]]

\* ShapeCastable.as_shape is the subclass's method as it is: __new__ only
\* checks that it exists.
ShapeCastable_as_shape(c) == Hook_run(c)

\* ValueCastable.lowermethod, wrapper_memoized: the method runs when the
\* object has no __lowered_to yet, and what it returned is kept.
ValueCastable_as_value(c) ==
    IF IsNone(c.lowered_to)
    THEN LET r == Hook_run(c) IN
         [new_obj |-> r.new_obj,
          self |-> [r.self EXCEPT !.lowered_to = Some(r.new_obj)]]
    ELSE [new_obj |-> The(c.lowered_to), self |-> c]

\* One turn of the `while True` of Shape.cast / Value.cast on obj: either the
\* cast ends (out is what it returns or raises) or obj is replaced.
Cast_turn(cls, obj, objs) ==
    IF obj.type = "resolved"
    THEN [out |-> Some(Return(obj)), obj |-> obj, objs |-> objs]
    ELSE IF obj.type = "int"
    THEN [out |-> Some(IF cls = "ShapeCastable" THEN Shape(obj.id, FALSE)
                       ELSE Return(Resolved)),
          obj |-> obj, objs |-> objs]
    ELSE IF obj.type = "castable" /\ objs[obj.id].cls = cls
    THEN LET r == IF cls = "ShapeCastable"
                  THEN ShapeCastable_as_shape(objs[obj.id])
                  ELSE ValueCastable_as_value(objs[obj.id])
             after == [objs EXCEPT ![obj.id] = r.self]
         IN  IF r.new_obj = obj
             THEN [out |-> Some(Raise("RecursionError")), obj |-> obj,
                   objs |-> after]
             ELSE [out |-> None, obj |-> r.new_obj, objs |-> after]
    ELSE [out |-> Some(Raise("TypeError")), obj |-> obj, objs |-> objs]

CastableObjects(cls) ==
    [cls : {cls},
     returns : UNION {[1 .. n -> HookResults] : n \in 1 .. MaxRuns},
     runs : {0},
     lowered_to : {None}]

InitCast ==
    /\ inner = <<>>
    /\ mutable = TRUE
    /\ proxy_at = None
    /\ arr_call = NoCall
    /\ next_uid = 0
    /\ issued = <<>>
    /\ mapped = NoCollection
    /\ history = <<>>
    /\ threads = <<>>
    /\ \E cls \in {"ShapeCastable", "ValueCastable"} :
           castables \in [CastableIds -> CastableObjects(cls)]
    /\ pc = "idle"
    /\ args = None
    /\ result = None

\* A call of Shape.cast or Value.cast on one of the objects.
StartCast(fn, id) ==
    /\ pc \in {"idle", "done"}
    /\ castables[id].cls = (IF fn = "Shape.cast" THEN "ShapeCastable"
                            ELSE "ValueCastable")
    /\ pc' = "loop"
    /\ args' = [fn |-> fn, of |-> id, obj |-> Castable(id)]
    /\ result' = None
    /\ UNCHANGED <<arrVars, duidVars, mapVars, castVars, threadVars>>

CastStep(fn, cls) ==
    /\ pc = "loop"
    /\ args.fn = fn
    /\ LET t == Cast_turn(cls, args.obj, castables) IN
       /\ castables' = t.objs
       /\ args' = [args EXCEPT !.obj = t.obj]
       /\ IF IsNone(t.out)
          THEN UNCHANGED <<pc, result>>
          ELSE pc' = "done" /\ result' = The(t.out)
    /\ UNCHANGED <<arrVars, duidVars, mapVars, threadVars>>

ShapeCastStep == CastStep("Shape.cast", "ShapeCastable")
ValueCastStep == CastStep("Value.cast", "ValueCastable")

NextCast ==
    \/ \E id \in CastableIds : StartCast("Shape.cast", id)
    \/ \E id \in CastableIds : StartCast("Value.cast", id)
    \/ ShapeCastStep
    \/ ValueCastStep

SpecCast == InitCast /\ [][NextCast]_vars

\* The interpreter keeps running a call that has something to do.
SpecCastLive == SpecCast /\ WF_vars(ShapeCastStep) /\ WF_vars(ValueCastStep)

CastRunning == pc = "loop"

CastEnded ==
    /\ pc = "done"
    /\ Raised(result) => result.exc \in {"TypeError", "RecursionError"}

\* C21: every call of Shape.cast or Value.cast, on any of the castable
\* objects and whatever their hooks return, comes to an end: it returns a
\* Shape or a Value, or raises TypeError or RecursionError.
C21_CastTerminates == CastRunning ~> CastEnded

AlwaysReturnsItself(id) ==
    \A k \in 1 .. Len(castables[id].returns) :
        castables[id].returns[k] = Castable(id)

\* A cast of an object whose hook returns the object itself ends with
\* RecursionError.
Cast_OfSelfReturning_RecursionError ==
    \A id \in CastableIds :
        (CastRunning /\ args.of = id /\ AlwaysReturnsItself(id))
            ~> (pc = "done" /\ result = Raise("RecursionError"))

FirstResult(id) == castables[id].returns[1]

\* C22: the hook of a castable object runs at most once, and every
\* resolution of the object gives what that first run returned.
C22_HookRunsOnceAndIsKept ==
    /\ [](\A id \in CastableIds : castables[id].runs <= 1)
    /\ [][\A id \in CastableIds :
            (CastRunning /\ args.obj = Castable(id))
                => \/ args'.obj = FirstResult(id)
                   \/ /\ FirstResult(id) = Castable(id)
                      /\ result' = Raise("RecursionError")]_vars

\* The same, of ValueCastable objects alone, whose as_value goes through
\* ValueCastable.lowermethod.
ValueCastable_HookRunsOnceAndIsKept ==
    /\ [](\A id \in CastableIds :
            castables[id].cls = "ValueCastable" => castables[id].runs <= 1)
    /\ [][\A id \in CastableIds :
            (CastRunning /\ args.obj = Castable(id) /\ args.fn = "Value.cast")
                => \/ args'.obj = FirstResult(id)
                   \/ /\ FirstResult(id) = Castable(id)
                      /\ result' = Raise("RecursionError")]_vars

(***************************************************************************)
(* _lhs_signals and _rhs_signals: the signals a node writes and reads.     *)
(***************************************************************************)
ResetSignalValue(d)   == [type |-> "ResetSignal", domain |-> d]
AnyValue(kind, duid)  == [type |-> kind, duid |-> duid]
OperatorValue(op, operands) ==
    [type |-> "Operator", operator |-> op, operands |-> operands]
SliceValue(v)         == [type |-> "Slice", value |-> v, start |-> 0, stop |-> 1]
PartValue(v, offset)  == [type |-> "Part", value |-> v, offset |-> offset]
ReplValue(v)          == [type |-> "Repl", value |-> v, count |-> 2]
ArrayProxyValue(elems, index) ==
    [type |-> "ArrayProxy", elems |-> elems, index |-> index]
AssignStatement(lhs, rhs) == [type |-> "Assign", lhs |-> lhs, rhs |-> rhs]
PropertyStatement(test)   == [type |-> "Property", test |-> test]
SwitchStatement(test, stmts) ==
    [type |-> "Switch", test |-> test, stmts |-> stmts]

\* SignalSet(elements): _MappedKeySet.__init__ adds each element under its
\* SignalKey, which only a Signal, a ClockSignal or a ResetSignal has.
SignalSet(elements) ==
    IF \E k \in 1..Len(elements) : Raised(SignalKey_intern(elements[k]))
    THEN Raise("TypeError")
    ELSE Return({elements[k] : k \in 1..Len(elements)})

\* a | b of two sets, each the outcome of a call; a is evaluated first
SetOr(a, b) ==
    IF Raised(a) THEN a
    ELSE IF Raised(b) THEN b
    ELSE Return(Val(a) \cup Val(b))

\* torii.util.union(i, start): the elements of i joined with |=, from start
\* when there is one; the first element that raises ends it.
union(results, start) ==
    LET raising == {k \in 1..Len(results) : Raised(results[k])} IN
    IF raising # {}
    THEN results[CHOOSE k \in raising : \A j \in raising : k <= j]
    ELSE Return(UNION {Val(results[k]) : k \in 1..Len(results)}
                \cup (IF IsNone(start) THEN {} ELSE The(start)))

RECURSIVE lhs_signals_any_operator(_)
lhs_signals_any_operator(v) ==
    IF v.type \in {"Signal", "ClockSignal", "ResetSignal"} THEN SignalSet(<<v>>)
    ELSE IF v.type = "Operator"
    THEN union([k \in 1..Len(v.operands) |->
                    lhs_signals_any_operator(v.operands[k])], None)
    ELSE IF v.type \in {"Slice", "Part"} THEN lhs_signals_any_operator(v.value)
    ELSE IF v.type = "Cat"
    THEN union([k \in 1..Len(v.parts) |-> lhs_signals_any_operator(v.parts[k])],
               Some({}))
    ELSE IF v.type = "ArrayProxy"
    THEN union([k \in 1..Len(v.elems) |-> lhs_signals_any_operator(v.elems[k])],
               Some({}))
    ELSE Raise("TypeError")

\* _lhs_signals of each Value class; the classes that do not define it have
\* Value._lhs_signals, which raises.
RECURSIVE lhs_signals(_)
lhs_signals(v) ==
    IF v.type \in {"Signal", "ClockSignal", "ResetSignal"} THEN SignalSet(<<v>>)
    ELSE IF v.type = "Operator"
    THEN IF v.operator \in {"u", "s"}
         THEN union([k \in 1..Len(v.operands) |-> lhs_signals(v.operands[k])],
                    None)
         ELSE Raise("TypeError")
    ELSE IF v.type \in {"Slice", "Part"} THEN lhs_signals(v.value)
    ELSE IF v.type = "Cat"
    THEN union([k \in 1..Len(v.parts) |-> lhs_signals(v.parts[k])], Some({}))
    ELSE IF v.type = "ArrayProxy"
    THEN union([k \in 1..Len(v.elems) |-> lhs_signals(v.elems[k])], Some({}))
    ELSE Raise("TypeError")

\* _rhs_signals of each Value class
RECURSIVE rhs_signals(_)
rhs_signals(v) ==
    IF v.type \in {"Const", "AnyConst", "AnySeq"} THEN SignalSet(<<>>)
    ELSE IF v.type = "Operator"
    THEN union([k \in 1..Len(v.operands) |-> rhs_signals(v.operands[k])], None)
    ELSE IF v.type \in {"Slice", "Repl"} THEN rhs_signals(v.value)
    ELSE IF v.type = "Part"
    THEN SetOr(rhs_signals(v.value), rhs_signals(v.offset))
    ELSE IF v.type = "Cat"
    THEN union([k \in 1..Len(v.parts) |-> rhs_signals(v.parts[k])], Some({}))
    ELSE IF v.type = "Signal" THEN SignalSet(<<v>>)
    ELSE IF v.type \in {"ClockSignal", "ResetSignal"}
    THEN Raise("NotImplementedError")
    ELSE IF v.type = "ArrayProxy"
    THEN LET signals == union([k \in 1..Len(v.elems) |->
                                   rhs_signals(v.elems[k])], Some({}))
         IN  IF Raised(signals) THEN signals
             ELSE SetOr(rhs_signals(v.index), signals)
    ELSE SignalSet(<<v>>)

\* _lhs_signals of Assign
Assign_lhs_signals(stmt) == lhs_signals(stmt.lhs)

\* _rhs_signals of each Statement class
RECURSIVE Statement_rhs_signals(_)
Statement_rhs_signals(stmt) ==
    IF stmt.type = "Assign"
    THEN SetOr(rhs_signals(stmt.lhs), rhs_signals(stmt.rhs))
    ELSE IF stmt.type = "Property" THEN rhs_signals(stmt.test)
    ELSE LET signals == union([k \in 1..Len(stmt.stmts) |->
                                   Statement_rhs_signals(stmt.stmts[k])],
                              Some({}))
         IN  IF Raised(signals) THEN signals
             ELSE SetOr(rhs_signals(stmt.test), signals)

\* The nodes asked: leaves of every kind, and every kind of node over them,
\* nested up to MaxDepth deep.
MaxDepth == 2
Leaves ==
    {ConstValue(1), SignalValue(1), SignalValue(2), ClockSignalValue("sync"),
     ResetSignalValue("sync"), AnyValue("AnyConst", 3), InitialValue,
     SampleValue(SignalValue(1), 1, None)}
Seconds == {SignalValue(2), ConstValue(1)}
NodesOver(S) ==
    {OperatorValue(op, <<v>>) : op \in {"u", "s", "~"}, v \in S}
    \cup {OperatorValue("+", <<v, w>>) : v \in S, w \in Seconds}
    \cup {SliceValue(v) : v \in S}
    \cup {PartValue(v, w) : v \in S, w \in Seconds}
    \cup {CatValue(<<>>)}
    \cup {CatValue(<<v>>) : v \in S}
    \cup {CatValue(<<v, w>>) : v \in S, w \in Seconds}
    \cup {ReplValue(v) : v \in S}
    \cup {ArrayProxyValue(<<v>>, SignalValue(2)) : v \in S}
    \cup {ArrayProxyValue(<<v, w>>, SignalValue(2)) : v \in S, w \in Seconds}

RECURSIVE ValuesTo(_)
ValuesTo(depth) ==
    IF depth = 0 THEN Leaves
    ELSE LET below == ValuesTo(depth - 1) IN below \cup NodesOver(below)

AssignStatements ==
    {AssignStatement(lhs, rhs) : lhs \in ValuesTo(MaxDepth), rhs \in Seconds}
FewStatements ==
    {AssignStatement(SignalValue(1), rhs) : rhs \in ValuesTo(1)}
    \cup {PropertyStatement(test) : test \in ValuesTo(1)}
Statements ==
    AssignStatements \cup FewStatements
    \cup {SwitchStatement(test, <<s>>) : test \in Seconds, s \in FewStatements}
    \cup {SwitchStatement(SignalValue(1), <<>>)}

SignalsInputs ==
    [fn : {"Assign._lhs_signals"}, node : AssignStatements]
    \cup [fn : {"Value._rhs_signals"}, node : ValuesTo(MaxDepth)]
    \cup [fn : {"Statement._rhs_signals"}, node : Statements]

InitSignals ==
    /\ args \in SignalsInputs
    /\ pc = "call"
    /\ result = None
    /\ inner = <<>>
    /\ proxy_at = None
    /\ mutable = TRUE
    /\ arr_call = NoCall
    /\ next_uid = 0
    /\ issued = <<>>
    /\ mapped = NoCollection
    /\ history = <<>>
    /\ castables = <<>>
    /\ threads = <<>>

QueryLhsSignals ==
    /\ pc = "call"
    /\ args.fn = "Assign._lhs_signals"
    /\ result' = Assign_lhs_signals(args.node)
    /\ pc' = "done"
    /\ UNCHANGED <<args, arrVars, duidVars, mapVars, castVars, threadVars>>

QueryRhsSignals ==
    /\ pc = "call"
    /\ args.fn = "Value._rhs_signals"
    /\ result' = rhs_signals(args.node)
    /\ pc' = "done"
    /\ UNCHANGED <<args, arrVars, duidVars, mapVars, castVars, threadVars>>

QueryStatementRhsSignals ==
    /\ pc = "call"
    /\ args.fn = "Statement._rhs_signals"
    /\ result' = Statement_rhs_signals(args.node)
    /\ pc' = "done"
    /\ UNCHANGED <<args, arrVars, duidVars, mapVars, castVars, threadVars>>

NextSignals ==
    \/ QueryLhsSignals
    \/ QueryRhsSignals
    \/ QueryStatementRhsSignals

SpecSignals == InitSignals /\ [][NextSignals]_vars

\* The nodes directly under a node.
Children(v) ==
    IF v.type = "Operator" THEN {v.operands[k] : k \in 1..Len(v.operands)}
    ELSE IF v.type \in {"Slice", "Repl", "Sample"} THEN {v.value}
    ELSE IF v.type = "Part" THEN {v.value, v.offset}
    ELSE IF v.type = "Cat" THEN {v.parts[k] : k \in 1..Len(v.parts)}
    ELSE IF v.type = "ArrayProxy"
    THEN {v.elems[k] : k \in 1..Len(v.elems)} \cup {v.index}
    ELSE {}

\* The nodes on the assigned path of a node: what a Slice or a Part is taken
\* of, the parts of a Cat, the operand of a reinterpretation.
IsReinterpret(v) == v.type = "Operator" /\ v.operator \in {"u", "s"}

RECURSIVE BuiltFromSignals(_)
BuiltFromSignals(v) ==
    IF v.type = "Signal" THEN TRUE
    ELSE IF v.type \in {"Slice", "Part"} THEN BuiltFromSignals(v.value)
    ELSE IF v.type = "Cat"
    THEN \A k \in 1..Len(v.parts) : BuiltFromSignals(v.parts[k])
    ELSE IF IsReinterpret(v)
    THEN \A k \in 1..Len(v.operands) : BuiltFromSignals(v.operands[k])
    ELSE FALSE

RECURSIVE Assignable(_)
Assignable(v) ==
    IF v.type \in {"Signal", "ClockSignal", "ResetSignal"} THEN TRUE
    ELSE IF v.type \in {"Slice", "Part"} THEN Assignable(v.value)
    ELSE IF v.type = "Cat"
    THEN \A k \in 1..Len(v.parts) : Assignable(v.parts[k])
    ELSE IF v.type = "ArrayProxy"
    THEN \A k \in 1..Len(v.elems) : Assignable(v.elems[k])
    ELSE IF IsReinterpret(v)
    THEN \A k \in 1..Len(v.operands) : Assignable(v.operands[k])
    ELSE FALSE

LhsSignalsAsked == pc = "done" /\ args.fn = "Assign._lhs_signals"

RECURSIVE ValueNodes(_)
ValueNodes(v) == {v} \cup UNION {ValueNodes(c) : c \in Children(v)}

RECURSIVE StatementNodes(_)
StatementNodes(stmt) ==
    IF stmt.type = "Assign" THEN ValueNodes(stmt.lhs) \cup ValueNodes(stmt.rhs)
    ELSE IF stmt.type = "Property" THEN ValueNodes(stmt.test)
    ELSE ValueNodes(stmt.test)
         \cup UNION {StatementNodes(stmt.stmts[k]) : k \in 1..Len(stmt.stmts)}

RhsSignalsAsked ==
    /\ pc = "done"
    /\ args.fn \in {"Value._rhs_signals", "Statement._rhs_signals"}

NodesAsked ==
    IF args.fn = "Value._rhs_signals" THEN ValueNodes(args.node)
    ELSE StatementNodes(args.node)

ListedVariants ==
    {"Const", "Signal", "AnyConst", "AnySeq", "Operator", "Slice", "Part", "Cat",
     "Repl", "ArrayProxy", "Sample", "Initial"}

SignalSetGiven ==
    /\ ~Raised(result)
    /\ \A s \in Val(result) : s.type \in {"Signal", "ClockSignal", "ResetSignal"}

\* C26: _rhs_signals() of a value made of Const, Signal, AnyConst / AnySeq,
\* Operator, Slice, Part, Cat, Repl, ArrayProxy, Sample and Initial nodes, and
\* of a statement over such values, returns a set without raising, and every
\* member of the set is a Signal, a ClockSignal or a ResetSignal.
C26_RhsSignalsDefined ==
    (RhsSignalsAsked /\ \A n \in NodesAsked : n.type \in ListedVariants)
        => SignalSetGiven

\* The same, of values and statements that hold no Sample and no Initial.
RhsSignals_Defined_WithoutSampleAndInitial ==
    (RhsSignalsAsked
        /\ \A n \in NodesAsked : n.type \in ListedVariants \ {"Sample", "Initial"})
        => SignalSetGiven

(***************************************************************************)
(* DUID.__init__ run by several threads.                                   *)
(***************************************************************************)
\* The interpreter may switch threads between any two bytecodes, so the two
\* statements of DUID.__init__ are three steps on the shared counter: the
\* read for self.duid, the read of `+= 1` and its write.
NumThreads == 2
ThreadIds == 1 .. NumThreads

\* A thread outside DUID.__init__; overlapped records whether a call of its
\* ever ran while another thread was inside DUID.__init__.
ThreadOutside == [at |-> "outside", loaded |-> 0, overlapped |-> FALSE]

Inside(t) == threads[t].at # "outside"

\* DUID.__next_uid += 1, the write: the value read before, plus one
DUID_increment_nothing(loaded) == loaded

DUID_increment(loaded) == loaded + 1

InitThreads ==
    /\ threads = [t \in ThreadIds |-> ThreadOutside]
    /\ next_uid = 0
    /\ issued = <<>>
    /\ inner = <<>>
    /\ mutable = TRUE
    /\ proxy_at = None
    /\ arr_call = NoCall
    /\ mapped = NoCollection
    /\ history = <<>>
    /\ castables = <<>>
    /\ pc = "idle"
    /\ args = None
    /\ result = None

\* self.duid = DUID.__next_uid
TakeId(t) ==
    /\ threads[t].at = "outside"
    /\ Len(issued) < MaxUid
    /\ issued' = Append(issued, Issue("Signal", next_uid, TRUE))
    /\ threads' = [u \in ThreadIds |->
                     IF u = t
                     THEN [threads[t] EXCEPT
                             !.at = "taken",
                             !.overlapped = @ \/ \E v \in ThreadIds : Inside(v)]
                     ELSE IF Inside(u)
                     THEN [threads[u] EXCEPT !.overlapped = TRUE]
                     ELSE threads[u]]
    /\ UNCHANGED <<next_uid, arrVars, mapVars, castVars, callVars>>

\* DUID.__next_uid += 1, the read
LoadCounter(t) ==
    /\ threads[t].at = "taken"
    /\ threads' = [threads EXCEPT ![t].at = "loaded", ![t].loaded = next_uid]
    /\ UNCHANGED <<duidVars, arrVars, mapVars, castVars, callVars>>

\* DUID.__next_uid += 1, the write
StoreCounter(t) ==
    /\ threads[t].at = "loaded"
    /\ next_uid' = DUID_increment(threads[t].loaded)
    /\ threads' = [threads EXCEPT ![t].at = "outside", ![t].loaded = 0]
    /\ UNCHANGED <<issued, arrVars, mapVars, castVars, callVars>>

NextThreads ==
    \/ \E t \in ThreadIds : TakeId(t)
    \/ \E t \in ThreadIds : LoadCounter(t)
    \/ \E t \in ThreadIds : StoreCounter(t)

SpecThreads == InitThreads /\ [][NextThreads]_vars

Serialized == \A t \in ThreadIds : ~threads[t].overlapped

IdsDistinct ==
    \A i, j \in 1..Len(issued) : i # j => issued[i].duid # issued[j].duid

\* C24: the ids taken are distinct as long as no call of DUID.__init__ ran
\* while another thread was inside DUID.__init__; calls that do interleave
\* can take the same id.
C24_IdsDistinctWhenSerialized == Serialized => IdsDistinct

C24_Witness ==
    /\ ~Serialized
    /\ \E i, j \in 1..Len(issued) :
          i # j /\ issued[i].duid = issued[j].duid
    /\ \E t \in ThreadIds : ~Inside(t) /\ threads[t].overlapped

(***************************************************************************)
(* Value.rotate_left and Value.rotate_right.                               *)
(***************************************************************************)
\* Cat(a, b) of two parts already built; a part that raised ends it.
Cat_of_two(a, b) ==
    IF Raised(a) THEN a
    ELSE IF Raised(b) THEN b
    ELSE Return([type |-> "Cat", parts |-> <<Val(a), Val(b)>>])

\* Value.rotate_left on a value of width n; the amount is None when it is not
\* an int.
Value_rotate_left(n, amount) ==
    IF IsNone(amount) THEN Raise("TypeError")
    ELSE IF n = 0 THEN Raise("ZeroDivisionError")
    ELSE LET a == The(amount) % n IN
         Cat_of_two(Getitem_slice(n, Some(-a), None, None),
                    Getitem_slice(n, None, Some(-a), None))

\* Value.rotate_right
Value_rotate_right(n, amount) ==
    IF IsNone(amount) THEN Raise("TypeError")
    ELSE IF n = 0 THEN Raise("ZeroDivisionError")
    ELSE LET a == The(amount) % n IN
         Cat_of_two(Getitem_slice(n, Some(a), None, None),
                    Getitem_slice(n, None, Some(a), None))

RotateInputs ==
    [fn : {"rotate_left", "rotate_right"}, n : Widths, amount : MaybeInts]

InitRotate ==
    /\ args \in RotateInputs
    /\ pc = "call"
    /\ result = None
    /\ inner = <<>>
    /\ proxy_at = None
    /\ mutable = TRUE
    /\ arr_call = NoCall
    /\ next_uid = 0
    /\ issued = <<>>
    /\ mapped = NoCollection
    /\ history = <<>>
    /\ castables = <<>>
    /\ threads = <<>>

RotateLeft ==
    /\ pc = "call"
    /\ args.fn = "rotate_left"
    /\ result' = Value_rotate_left(args.n, args.amount)
    /\ pc' = "done"
    /\ UNCHANGED <<args, arrVars, duidVars, mapVars, castVars, threadVars>>

RotateRight ==
    /\ pc = "call"
    /\ args.fn = "rotate_right"
    /\ result' = Value_rotate_right(args.n, args.amount)
    /\ pc' = "done"
    /\ UNCHANGED <<args, arrVars, duidVars, mapVars, castVars, threadVars>>

NextRotate ==
    \/ RotateLeft
    \/ RotateRight

SpecRotate == InitRotate /\ [][NextRotate]_vars

\* The bit of the operand found at each position of a Cat of Slices of it,
\* lowest position first.
RECURSIVE BitsOfParts(_)
BitsOfParts(parts) ==
    IF parts = <<>> THEN <<>>
    ELSE LET p == parts[1] IN
         [k \in 1..(p.stop - p.start) |-> p.start + k - 1]
             \o BitsOfParts(Tail(parts))

Rotated(fn) == pc = "done" /\ args.fn = fn /\ ~IsNone(args.amount)

\* What the claim says of a rotation to the left by a: the width is kept and
\* bit i is bit (i - a) mod n of the operand.
IsRotationLeft(r, n, a) ==
    /\ ~Raised(r)
    /\ Val(r).type = "Cat"
    /\ LET bits == BitsOfParts(Val(r).parts) IN
       /\ Len(bits) = n
       /\ \A i \in 0..(n - 1) : bits[i + 1] = (i - a) % n

RotationsAgree ==
    /\ Rotated("rotate_left") =>
          /\ IsRotationLeft(result, args.n, The(args.amount))
          /\ result = Value_rotate_left(args.n, Some(The(args.amount) % args.n))
    /\ Rotated("rotate_right") =>
          result = Value_rotate_left(args.n, Some(-The(args.amount)))

\* C25: on a value of any width n >= 0 and for any integer a, rotate_left(a)
\* gives a value of width n whose bit i is bit (i - a) mod n of the operand,
\* the same as for a mod n, and rotate_right(a) gives the expression that
\* rotate_left(-a) gives.
C25_RotateByConstant ==
    /\ Rotated("rotate_left") =>
          /\ IsRotationLeft(result, args.n, The(args.amount))
          /\ args.n > 0 =>
                result = Value_rotate_left(args.n,
                                           Some(The(args.amount) % args.n))
    /\ Rotated("rotate_right") =>
          /\ ~Raised(result)
          /\ result = Value_rotate_left(args.n, Some(-The(args.amount)))

\* The same, of values of width 1 and more.
Rotate_ByConstant_NonEmpty == args.n > 0 => RotationsAgree

(***************************************************************************)
(* Value.bit_select and Value.word_select.                                 *)
(***************************************************************************)
\* The offset after Value.cast: a Const of some value, or another Value of
\* some shape.
ConstOffset(v)       == [const |-> Some(v), shape |-> None]
DynamicOffset(shape) == [const |-> None, shape |-> Some(shape)]

\* Value.bit_select on a value of width n; the width is None when it is not
\* an int.
Value_bit_select(n, offset, width) ==
    IF ~IsNone(offset.const) /\ ~IsNone(width)
    THEN Getitem_slice(n, offset.const, Some(The(offset.const) + The(width)), None)
    ELSE Part_init(n, offset.shape, width, Some(1))

\* Value.word_select
Value_word_select(n, offset, width) ==
    IF ~IsNone(offset.const) /\ ~IsNone(width)
    THEN Getitem_slice(n, Some(The(offset.const) * The(width)),
                       Some((The(offset.const) + 1) * The(width)), None)
    ELSE Part_init(n, offset.shape, width, width)

\* shape() of what was selected
Selected_shape(node) ==
    IF node.type = "Slice" THEN Slice_shape(node) ELSE Part_shape(node)

SelectInputs ==
    [fn : {"bit_select", "word_select"}, n : Widths,
     offset : {ConstOffset(v) : v \in -1..(MaxWidth + 1)}
              \cup {DynamicOffset(s) : s \in Shapes},
     width : {None} \cup {Some(i) : i \in -1..(MaxWidth + 1)}]

InitSelect ==
    /\ args \in SelectInputs
    /\ pc = "call"
    /\ result = None
    /\ inner = <<>>
    /\ proxy_at = None
    /\ mutable = TRUE
    /\ arr_call = NoCall
    /\ next_uid = 0
    /\ issued = <<>>
    /\ mapped = NoCollection
    /\ history = <<>>
    /\ castables = <<>>
    /\ threads = <<>>

BitSelect ==
    /\ pc = "call"
    /\ args.fn = "bit_select"
    /\ result' = Value_bit_select(args.n, args.offset, args.width)
    /\ pc' = "built"
    /\ UNCHANGED <<args, arrVars, duidVars, mapVars, castVars, threadVars>>

WordSelect ==
    /\ pc = "call"
    /\ args.fn = "word_select"
    /\ result' = Value_word_select(args.n, args.offset, args.width)
    /\ pc' = "built"
    /\ UNCHANGED <<args, arrVars, duidVars, mapVars, castVars, threadVars>>

QuerySelectedShape ==
    /\ pc = "built"
    /\ args.fn \in {"bit_select", "word_select"}
    /\ ~Raised(result)
    /\ result' = [node |-> Val(result), shape |-> Selected_shape(Val(result))]
    /\ pc' = "done"
    /\ UNCHANGED <<args, arrVars, duidVars, mapVars, castVars, threadVars>>

NextSelect ==
    \/ BitSelect
    \/ WordSelect
    \/ QuerySelectedShape

SpecSelect == InitSelect /\ [][NextSelect]_vars

\* A selection of a width that a value can have, at an offset that is a
\* constant no less than 0 or is any Value.
SelectAsked ==
    /\ args.fn \in {"bit_select", "word_select"}
    /\ ~IsNone(args.width)
    /\ The(args.width) >= 0
    /\ ~IsNone(args.offset.const) => The(args.offset.const) >= 0

SelectedShapeIsWidth ==
    /\ pc = "built" => ~Raised(result)
    /\ pc = "done" => result.shape = unsigned(The(args.width))

\* The last bit of the operand that the selection's window asks for, plus 1.
WindowTop ==
    IF args.fn = "bit_select" THEN The(args.offset.const) + The(args.width)
    ELSE (The(args.offset.const) + 1) * The(args.width)

\* C27: bit_select(offset, width) and word_select(offset, width) give a
\* value of shape unsigned(width), be the offset a constant or not, wherever
\* the window lies.
C27_SelectedShapeIsWidth ==
    (SelectAsked /\ (args.fn = "word_select" /\ IsNone(args.offset.const)
                        => The(args.width) > 0))
        => SelectedShapeIsWidth

\* The same, of the selections at a constant offset whose window ends
\* within the operand, and of those at an offset that is not a constant.
Selected_ShapeIsWidth_WindowWithin ==
    (SelectAsked /\ (args.fn = "word_select" /\ IsNone(args.offset.const)
                        => The(args.width) > 0)
                 /\ (~IsNone(args.offset.const) => WindowTop <= args.n))
        => SelectedShapeIsWidth

(***************************************************************************)
(* ValueKey: __eq__ and __hash__ together.                                 *)
(***************************************************************************)
\* Three values are keyed; the keys are compared with each other and hashed.
LawValues ==
    {ConstValue(0), ConstValue(1), SignalValue(1), SignalValue(2),
     ClockSignalValue("sync"), CatValue(<<>>), CatValue(<<SignalValue(1)>>),
     CatValue(<<SignalValue(2)>>), CatValue(<<SignalValue(1), SignalValue(2)>>),
     SampleValue(SignalValue(1), 1, None),
     SampleValue(SignalValue(1), 1, Some("sync")), InitialValue}

KeyLawsInputs == [fn : {"ValueKey"}, a : LawValues, b : LawValues, c : LawValues]

InitKeyLaws ==
    /\ args \in KeyLawsInputs
    /\ pc = "call"
    /\ result = None
    /\ inner = <<>>
    /\ proxy_at = None
    /\ mutable = TRUE
    /\ arr_call = NoCall
    /\ next_uid = 0
    /\ issued = <<>>
    /\ mapped = NoCollection
    /\ history = <<>>
    /\ castables = <<>>
    /\ threads = <<>>

CompareAndHashKeys ==
    /\ pc = "call"
    /\ args.fn = "ValueKey"
    /\ result' = [aa |-> ValueKey_eq(args.a, args.a),
                  ab |-> ValueKey_eq(args.a, args.b),
                  ba |-> ValueKey_eq(args.b, args.a),
                  bc |-> ValueKey_eq(args.b, args.c),
                  ac |-> ValueKey_eq(args.a, args.c),
                  hash_a |-> ValueKey_hash(args.a),
                  hash_b |-> ValueKey_hash(args.b)]
    /\ pc' = "done"
    /\ UNCHANGED <<args, arrVars, duidVars, mapVars, castVars, threadVars>>

NextKeyLaws ==
    \/ CompareAndHashKeys

SpecKeyLaws == InitKeyLaws /\ [][NextKeyLaws]_vars

KeysComparedAndHashed == pc = "done" /\ args.fn = "ValueKey"

KeyLaws ==
    /\ result.ab => result.hash_a = result.hash_b
    /\ result.aa
    /\ result.ab <=> result.ba
    /\ (result.ab /\ result.bc) => result.ac

\* C28: keys that are equal have equal hashes, and == on keys is reflexive,
\* symmetric and transitive.
C28_KeyHashAndEquivalence == KeysComparedAndHashed => KeyLaws

\* The same, of the keys of values that are neither Cat nor Sample.
ValueKey_HashAndEquivalence_Leaves ==
    (KeysComparedAndHashed
        /\ \A v \in {args.a, args.b, args.c} : v.type \notin {"Cat", "Sample"})
        => KeyLaws

(***************************************************************************)
(* Operator.shape of the arithmetic operators, against the operands'       *)
(* values.                                                                 *)
(***************************************************************************)
\* The integers that a value of a shape can be.
ValuesOf(shape) ==
    IF shape.width = 0 THEN {0}
    ELSE IF shape.signed
    THEN -Pow2(shape.width - 1) .. (Pow2(shape.width - 1) - 1)
    ELSE 0 .. (Pow2(shape.width) - 1)

\* Python's // and % on integers: the quotient is rounded down and the
\* remainder has the sign of the divisor.
FloorDiv(a, b) == IF b > 0 THEN a \div b ELSE (-a) \div (-b)
FloorMod(a, b) == a - b * FloorDiv(a, b)

ArithOps == {"+", "*", "//", "%"}

\* An arithmetic Operator over two operands, or the negation of one: the
\* operands' shapes, and a value that each operand can have.
ArithInputs ==
    UNION {[fn : {"Operator.shape"}, operator : ArithOps, shapes : {<<sa, sb>>},
            values : ValuesOf(sa) \X ValuesOf(sb)] : sa \in Shapes, sb \in Shapes}
    \cup
    UNION {[fn : {"Operator.shape"}, operator : {"-"}, shapes : {<<sa>>},
            values : {<<a>> : a \in ValuesOf(sa)}] : sa \in Shapes}

InitArith ==
    /\ args \in ArithInputs
    /\ pc = "call"
    /\ result = None
    /\ inner = <<>>
    /\ proxy_at = None
    /\ mutable = TRUE
    /\ arr_call = NoCall
    /\ next_uid = 0
    /\ issued = <<>>
    /\ mapped = NoCollection
    /\ history = <<>>
    /\ castables = <<>>
    /\ threads = <<>>

QueryArithShape ==
    /\ pc = "call"
    /\ args.fn = "Operator.shape"
    /\ result' = Operator_shape(args.operator, args.shapes, TRUE)
    /\ pc' = "done"
    /\ UNCHANGED <<args, arrVars, duidVars, mapVars, castVars, threadVars>>

NextArith ==
    \/ QueryArithShape

SpecArith == InitArith /\ [][NextArith]_vars

\* The mathematical result of the operation on the operands' values.
Exact ==
    LET a == args.values[1] IN
    IF Len(args.values) = 1 THEN -a
    ELSE LET b == args.values[2] IN
         IF args.operator = "+" THEN a + b
         ELSE IF args.operator = "*" THEN a * b
         ELSE IF args.operator = "//" THEN FloorDiv(a, b)
         ELSE FloorMod(a, b)

ArithShapeAsked ==
    /\ pc = "done"
    /\ args.fn = "Operator.shape"
    /\ args.operator \in {"//", "%"} => args.values[2] # 0

\* C29: the shape that Operator.shape() gives a + b, a * b, a // b and
\* a % b (b not 0) and -a holds the mathematical result, whatever the
\* operands' shapes and whatever values of these shapes the operands have.
C29_ArithShapeHoldsResult ==
    ArithShapeAsked => (~Raised(result) /\ Exact \in ValuesOf(Val(result)))

C29_Witness ==
    /\ ArithShapeAsked
    /\ args.operator = "//"
    /\ args.shapes[1].signed
    /\ args.values[2] = -1
    /\ Exact \notin ValuesOf(args.shapes[1])
    /\ Exact \in ValuesOf(Val(result))

(***************************************************************************)
(* Cat._as_const.                                                          *)
(***************************************************************************)
MaxPartWidth == 2

\* The parts of the Cat: constants of every shape up to MaxPartWidth wide with
\* every value they hold, and a Signal, which is no constant.
ConstPart(v, shape) ==
    [type |-> "Const", value |-> v, width |-> shape.width, signed |-> shape.signed]
SignalPart == [type |-> "Signal", value |-> 0, width |-> 1, signed |-> FALSE]

CatParts ==
    UNION {{ConstPart(v, s) : v \in ValuesOf(s)} :
               s \in [width : 0..MaxPartWidth, signed : BOOLEAN]}
    \cup {SignalPart}

\* _as_const of a part: Const._as_const gives the value, Value._as_const
\* raises.
Part_as_const(part) ==
    IF part.type = "Const" THEN Return(part.value) ELSE Raise("TypeError")

\* The loop of Cat._as_const over the parts from the last to the first, with
\* k parts left and value so far.
RECURSIVE Cat_as_const_loop(_, _, _)
Cat_as_const_loop(parts, k, value) ==
    IF k = 0 THEN Return(value)
    ELSE LET shifted == Val(ShiftLeft(value, parts[k].width))
             c == Part_as_const(parts[k])
         IN  IF Raised(c) THEN c
             ELSE Cat_as_const_loop(parts, k - 1, BitOr(shifted, Val(c)))

\* Cat._as_const
Cat_as_const(parts) == Cat_as_const_loop(parts, Len(parts), 0)

AsConstInputs ==
    [fn : {"Cat._as_const"},
     parts : UNION {[1..n -> CatParts] : n \in 0..MaxLen}]

InitAsConst ==
    /\ args \in AsConstInputs
    /\ pc = "call"
    /\ result = None
    /\ inner = <<>>
    /\ proxy_at = None
    /\ mutable = TRUE
    /\ arr_call = NoCall
    /\ next_uid = 0
    /\ issued = <<>>
    /\ mapped = NoCollection
    /\ history = <<>>
    /\ castables = <<>>
    /\ threads = <<>>

CatAsConst ==
    /\ pc = "call"
    /\ args.fn = "Cat._as_const"
    /\ result' = Cat_as_const(args.parts)
    /\ pc' = "done"
    /\ UNCHANGED <<args, arrVars, duidVars, mapVars, castVars, threadVars>>

NextAsConst ==
    \/ CatAsConst

SpecAsConst == InitAsConst /\ [][NextAsConst]_vars

\* The bit pattern of the concatenation: each part's value modulo 2^width,
\* the first part lowest.
RECURSIVE BitPattern(_)
BitPattern(parts) ==
    IF parts = <<>> THEN 0
    ELSE (parts[1].value % Pow2(parts[1].width))
         + Pow2(parts[1].width) * BitPattern(Tail(parts))

RECURSIVE TotalWidth(_)
TotalWidth(parts) ==
    IF parts = <<>> THEN 0 ELSE parts[1].width + TotalWidth(Tail(parts))

AsConstAsked(values) ==
    /\ pc = "done"
    /\ args.fn = "Cat._as_const"
    /\ \A k \in 1..Len(args.parts) :
          args.parts[k].type = "Const" /\ args.parts[k].value \in values

IsBitPattern ==
    /\ ~Raised(result)
    /\ Val(result) = BitPattern(args.parts)
    /\ 0 <= Val(result)
    /\ Val(result) < Pow2(TotalWidth(args.parts))

\* C30: Cat._as_const() of constant parts, negative signed constants
\* included, is the bit pattern of the concatenation, the first part in the
\* lowest bits: the sum of each part's value modulo 2^width shifted left by
\* the width of the parts before it, a number from 0 up to 2^(total width).
C30_CatAsConstIsBitPattern ==
    AsConstAsked(-Pow2(MaxPartWidth) .. Pow2(MaxPartWidth)) => IsBitPattern

\* The same, of parts whose values are not negative.
Cat_AsConst_IsBitPattern_NonNegative ==
    AsConstAsked(0 .. Pow2(MaxPartWidth)) => IsBitPattern

=============================================================================
